---- MODULE Spec2Model ----
(***************************************************************************)
(* Velocity Rush: the checkpoint/lap state machine (CheckpointSystem), the *)
(* race orchestrator (GameScene) and the fixed-timestep scheduler          *)
(* (GameLoop), modelled from the JavaScript sources.                       *)
(*                                                                         *)
(* Times are integers in an abstract unit.  JavaScript arrays are objects: *)
(* a field holding an array holds a reference into `heap`, so that two     *)
(* fields holding the same array alias each other as they do in the code.  *)
(***************************************************************************)
EXTENDS Integers, Sequences, FiniteSets, TLC

VARIABLES
  cs,            \* the CheckpointSystem object's fields
  heap,          \* array objects: reference -> contents
  wallSinceStart,\* performance.now() - cs.raceStartTime, in time units
  events,        \* callbacks fired by the latest CheckpointSystem.update()
  passCount,     \* checkpoints passed since the latest startRace()
  finishedCount, \* onRaceFinished invocations since the latest startRace()
  snaps,         \* snapshots a client holds, as returned by getRaceState()
  snapTaken,     \* what each held snapshot's lapTimes read when it was
                 \* returned (or when its holder last wrote it)
  ownLapTimes,   \* the lap times the CheckpointSystem itself has recorded
                 \* since its latest reset()
  rs,            \* GameScene.raceState
  isPaused,      \* GameScene.isPaused
  intervals,     \* countdown intervals (setInterval) still running
  lapTimers,     \* pending setTimeout()s that clear raceState.lapCompleted
  cpTimers,      \* pending setTimeout()s that clear raceState.checkpointPassed
  trace          \* the steps of the latest GameScene handler, in order,
                 \* with every snapshot it handed to onRaceStateChanged

sceneVars == <<rs, isPaused, intervals, lapTimers, cpTimers, trace>>

VARIABLES
  loop,          \* the GameLoop object's fields, the host's pending animation
                 \* frame requests and the wall time since loop.lastTime
  frame,         \* what the latest onFrame() call did: its passes over the
                 \* callback arrays and every callback invocation
  racePaused     \* RaceScene's gameState.isPaused

loopVars == <<loop, frame, racePaused>>

csVars == <<cs, heap, wallSinceStart, events, passCount, finishedCount,
            snaps, snapTaken, ownLapTimes>>

VARIABLES
  resp           \* the latest call of the default collision response: its
                 \* arguments and what it left in the two bodies

VARIABLES
  coll           \* the CollisionSystem and the objects of its scene: each
                 \* object's position and userData, the two collider arrays,
                 \* and what the latest update() tested and called

VARIABLES
  veh            \* the VehiclePhysics: its state, the number of
                 \* setControls() and update() calls made on it, and what
                 \* the latest update() computed

physVars == <<resp, coll, veh>>

vars == <<csVars, sceneVars, loopVars, physVars>>

----------------------------------------------------------------------------
(* Bounds of the model *)

MaxCheckpoints == 4
MaxLaps == 2
MaxWall == 8
MaxSnapWall == 2
MaxLapTimesLen == 2
MaxIntervals == 2
MaxSceneWall == 3
MaxCallbacks == 2
MaxRequests == 1
MaxCollisionUpdates == 1
MaxControlCalls == 2
MaxVehicleUpdates == 2
MaxSteeringCalls == 25
MaxTimers == 2
CheckpointSpacing == 15

(* Program constants *)

null == -1
DefaultTotalLaps == 3
DistanceThreshold == 10
StartFinishIndex == 0

DtSteps == {1, 2}
WallSteps == {1, 2}
Offsets == {0, 7, 10}
SnapSlots == {1, 2}
ArrayIds == 1..4
NoRef == 0

----------------------------------------------------------------------------
(* Helpers *)

RECURSIVE SeqMin(_)
SeqMin(s) ==
  IF s = <<>> THEN null
  ELSE IF Len(s) = 1 THEN s[1]
  ELSE LET m == SeqMin(Tail(s)) IN IF s[1] < m THEN s[1] ELSE m

Abs(x) == IF x < 0 THEN -x ELSE x

\* The smallest array id outside `held`: a fresh array object.
NewArrayId(held) == CHOOSE i \in ArrayIds \ held :
                      \A j \in ArrayIds \ held : i <= j

\* Array objects nobody references any more are dropped (emptied).
Collect(h, held) == [i \in ArrayIds |-> IF i \in held THEN h[i] ELSE <<>>]

SnapRefs(sn) == {sn[i].lapTimes : i \in {j \in SnapSlots : sn[j].held}}

----------------------------------------------------------------------------
(* Track geometry: checkpoints on a line, the vehicle position a point.   *)

CheckpointPos(k) == k * CheckpointSpacing

VehiclePositions(n) == {CheckpointPos(k) + o : k \in 0..(n - 1), o \in Offsets}

\* a proximity test that accepts any checkpoint of the track
IsVehicleAtAnyCheckpoint(vehiclePosition, k) ==
  \E j \in 0..(MaxCheckpoints - 1) :
    Abs(vehiclePosition - CheckpointPos(j)) < DistanceThreshold

IsVehicleAtCheckpoint(vehiclePosition, k) ==
  Abs(vehiclePosition - CheckpointPos(k)) < DistanceThreshold

IsStartFinish(k) == k = StartFinishIndex

----------------------------------------------------------------------------
(* CheckpointSystem.  The operators work on s = [cs, heap, events].        *)

NoEvent == [type |-> "none", index |-> null, lap |-> null, lapTime |-> null,
            bestLapTime |-> null, totalTime |-> null, lapTimes |-> NoRef,
            lapTimesNow |-> <<>>]

\* constructor() followed by init(checkpoints, {totalLaps}) with n checkpoints
CheckpointSystemInit(n, laps, ref) ==
  [ numCheckpoints |-> n,
    currentCheckpoint |-> 0,
    laps |-> 0,
    totalLaps |-> IF laps = 0 THEN DefaultTotalLaps ELSE laps,
    lapTimes |-> ref,
    currentLapTime |-> 0,
    bestLapTime |-> null,
    raceTime |-> 0,
    isRaceStarted |-> FALSE,
    isRaceFinished |-> FALSE ]

\* reset(): a new, empty lapTimes array; bestLapTime is not reset
Reset(c, ref) ==
  [c EXCEPT !.currentCheckpoint = 0, !.laps = 0, !.lapTimes = ref,
            !.currentLapTime = 0, !.raceTime = 0,
            !.isRaceStarted = FALSE, !.isRaceFinished = FALSE]

\* startRace(): reset(), raceStartTime = performance.now(), isRaceStarted
CheckpointStartRace(c, ref) == [Reset(c, ref) EXCEPT !.isRaceStarted = TRUE]

LapCompleted(s) ==
  LET c == s.cs
      pushed == Append(s.heap[c.lapTimes], c.currentLapTime)
      best == IF c.bestLapTime = null \/ c.currentLapTime < c.bestLapTime
              THEN c.currentLapTime ELSE c.bestLapTime
  IN [ cs |-> [c EXCEPT !.bestLapTime = best, !.currentLapTime = 0],
       heap |-> [s.heap EXCEPT ![c.lapTimes] = pushed],
       events |-> Append(s.events,
                    [NoEvent EXCEPT !.type = "lapCompleted", !.lap = c.laps,
                                    !.lapTime = pushed[Len(pushed)],
                                    !.bestLapTime = best,
                                    !.lapTimesNow = pushed]) ]

RaceFinished(s) ==
  [s EXCEPT !.cs.isRaceFinished = TRUE,
            !.events = Append(@,
               [NoEvent EXCEPT !.type = "raceFinished",
                               !.totalTime = s.cs.raceTime,
                               !.lapTimes = s.cs.lapTimes,
                               !.lapTimesNow = s.heap[s.cs.lapTimes],
                               !.bestLapTime = s.cs.bestLapTime]) ]

LapGuard(c) == IsStartFinish(c.currentCheckpoint) /\ c.laps > 0

CheckpointPassed(s) ==
  LET idx == s.cs.currentCheckpoint
      s1 == IF LapGuard(s.cs) THEN LapCompleted(s) ELSE s
      s2 == [s1 EXCEPT !.events = Append(@,
               [NoEvent EXCEPT !.type = "checkpointPassed", !.index = idx])]
      next == (idx + 1) % s.cs.numCheckpoints
      s3 == [s2 EXCEPT !.cs.currentCheckpoint = next]
      s4 == IF next = 0 THEN [s3 EXCEPT !.cs.laps = @ + 1] ELSE s3
  IN IF next = 0 /\ s4.cs.laps >= s4.cs.totalLaps THEN RaceFinished(s4) ELSE s4

\* update() without its isRaceFinished test (used to test the claims)
UpdateGuardNoFinish(c) == ~c.isRaceStarted

UpdateGuard(c) == ~c.isRaceStarted \/ c.isRaceFinished

\* update(deltaTime, vehiclePosition), called when performance.now() reads
\* raceStartTime + wall
Update(s, deltaTime, vehiclePosition, wall) ==
  IF UpdateGuard(s.cs) THEN s
  ELSE LET s1 == [s EXCEPT !.cs.raceTime = wall,
                           !.cs.currentLapTime = @ + deltaTime]
       IN IF s1.cs.currentCheckpoint < s1.cs.numCheckpoints
             /\ IsVehicleAtCheckpoint(vehiclePosition, s1.cs.currentCheckpoint)
          THEN CheckpointPassed(s1)
          ELSE s1

\* getRaceState(): the object literal it returns; lapTimes is this.lapTimes
GetRaceState(c) ==
  [ currentCheckpoint |-> c.currentCheckpoint,
    totalCheckpoints |-> c.numCheckpoints,
    currentLap |-> c.laps + 1,
    totalLaps |-> c.totalLaps,
    currentLapTime |-> c.currentLapTime,
    bestLapTime |-> c.bestLapTime,
    lapTimes |-> c.lapTimes,
    raceTime |-> c.raceTime,
    isRaceStarted |-> c.isRaceStarted,
    isRaceFinished |-> c.isRaceFinished ]

\* What a client's slot keeps of a returned object: its lapTimes reference.
\* The other fields are numbers and booleans, copied by value.
Kept(snapshot) == [held |-> TRUE, lapTimes |-> snapshot.lapTimes]

NoSnap == [held |-> FALSE, lapTimes |-> NoRef]

\* the lap times carried by the onLapCompleted events of ev, in order
RECURSIVE LapTimesOf(_)
LapTimesOf(ev) ==
  IF ev = <<>> THEN <<>>
  ELSE (IF Head(ev).type = "lapCompleted" THEN <<Head(ev).lapTime>> ELSE <<>>)
       \o LapTimesOf(Tail(ev))

CountEvents(ev, t) == Cardinality({i \in 1..Len(ev) : ev[i].type = t})

----------------------------------------------------------------------------
(* GameScene: the race orchestrator.  Its handlers work on                 *)
(* g = [rs, heap, trace].                                                  *)

CountdownFrom == 3

\* raceState as startRaceCountdown() resets it, with the fields the
\* handlers add
RaceStateInit(n, laps, ref) ==
  [ isRaceStarted |-> FALSE,
    isRaceFinished |-> FALSE,
    countdown |-> CountdownFrom,
    currentLap |-> 1,
    totalLaps |-> laps,
    currentLapTime |-> 0,
    lastLapTime |-> 0,
    bestLapTime |-> null,
    lapTimes |-> ref,
    raceTime |-> 0,
    currentCheckpoint |-> 0,
    totalCheckpoints |-> n,
    checkpointPassed |-> FALSE,
    lapCompleted |-> FALSE ]

Step(name) == [step |-> name, snap |-> <<>>]

\* GameScene.getRaceState(): { ...this.raceState }, as its receiver reads it
\* when it is called (lapTimes read through the shared reference)
SceneGetRaceState(r, h) == [r EXCEPT !.lapTimes = h[r.lapTimes]]

\* if (this.onRaceStateChanged) this.onRaceStateChanged(this.getRaceState())
Publish(g) ==
  [g EXCEPT !.trace = Append(@, [step |-> "publish",
                                  snap |-> <<SceneGetRaceState(g.rs, g.heap)>>])]

HandleLapCompleted(g, lapData, held) ==
  LET ref == NewArrayId(held)
  IN Publish([g EXCEPT !.rs.currentLap = lapData.lap + 1,
                       !.rs.lastLapTime = lapData.lapTime,
                       !.rs.bestLapTime = lapData.bestLapTime,
                       !.rs.lapCompleted = TRUE,
                       !.rs.lapTimes = ref,
                       !.heap[ref] = lapData.lapTimesNow])

HandleCheckpointPassed(g, checkpointData) ==
  Publish([g EXCEPT !.rs.currentCheckpoint = checkpointData.index,
                    !.rs.checkpointPassed = TRUE])

HandleRaceFinished(g, raceData) ==
  Publish([g EXCEPT !.rs.isRaceFinished = TRUE,
                    !.rs.raceTime = raceData.totalTime,
                    !.rs.lapTimes = raceData.lapTimes,
                    !.rs.bestLapTime = raceData.bestLapTime])

\* the callbacks init() was given, called in the order update() fires them
RECURSIVE HandleEvents(_, _, _)
HandleEvents(g, ev, held) ==
  IF ev = <<>> THEN g
  ELSE LET e == Head(ev)
           g1 == CASE e.type = "lapCompleted" -> HandleLapCompleted(g, e, held)
                   [] e.type = "checkpointPassed" -> HandleCheckpointPassed(g, e)
                   [] e.type = "raceFinished" -> HandleRaceFinished(g, e)
       IN HandleEvents(g1, Tail(ev), held)

\* this.updatePhysics(fixedDeltaTime): vehicle dynamics, then collisions
UpdatePhysics(t) == t \o <<Step("dynamics"), Step("collision")>>

\* the merge of the checkpoint system's state into raceState
MergeCheckpointState(r, checkpointState) ==
  [r EXCEPT !.currentLap = checkpointState.currentLap,
            !.currentLapTime = checkpointState.currentLapTime,
            !.bestLapTime = checkpointState.bestLapTime]

\* the fixed-update callback of setupGameLoop(), not paused
FixedUpdateBody(c, r, h, fixedDeltaTime, vehiclePosition, wall, held) ==
  LET r1 == IF r.isRaceStarted /\ ~r.isRaceFinished
            THEN [r EXCEPT !.raceTime = @ + fixedDeltaTime,
                           !.currentLapTime = @ + fixedDeltaTime]
            ELSE r
      t1 == UpdatePhysics(<<Step("fixedUpdate")>>)
      u == Update([cs |-> c, heap |-> h, events |-> <<>>],
                  fixedDeltaTime, vehiclePosition, wall)
      g == HandleEvents([rs |-> r1, heap |-> u.heap,
                         trace |-> Append(t1, Step("checkpoint"))],
                        u.events, held)
  IN [ cs |-> u.cs,
       events |-> u.events,
       heap |-> g.heap,
       rs |-> MergeCheckpointState(g.rs, GetRaceState(u.cs)),
       trace |-> Append(g.trace, Step("merge")) ]

Publishes(t) == {i \in 1..Len(t) : t[i].step = "publish"}

StepIndex(t, name) == CHOOSE i \in 0..Len(t) :
                        /\ i > 0 => t[i].step = name
                        /\ i = 0 => \A j \in 1..Len(t) : t[j].step # name
                        /\ \A j \in 1..Len(t) : t[j].step = name => i <= j

----------------------------------------------------------------------------
(* Vectors.  A Vector3 with rational components is [num, den]: the integer *)
(* vector num over the positive integer den, in lowest terms.              *)

RECURSIVE Gcd(_, _)
Gcd(a, b) == IF b = 0 THEN a ELSE Gcd(b, a % b)

Dot(u, v) == u[1] * v[1] + u[2] * v[2] + u[3] * v[3]

Scaled(k, u) == <<k * u[1], k * u[2], k * u[3]>>

Plus(u, v) == <<u[1] + v[1], u[2] + v[2], u[3] + v[3]>>

Minus(u, v) == <<u[1] - v[1], u[2] - v[2], u[3] - v[3]>>

Zero3 == <<0, 0, 0>>

\* num / den in lowest terms, den > 0
Vec(num, den) ==
  LET g == Gcd(Gcd(Gcd(Abs(num[1]), Abs(num[2])), Abs(num[3])), den)
  IN [num |-> <<num[1] \div g, num[2] \div g, num[3] \div g>>,
      den |-> den \div g]

\* a.add(b), a.sub(b), a.multiplyScalar(p / q)
VecAdd(a, b) ==
  Vec(Plus(Scaled(b.den, a.num), Scaled(a.den, b.num)), a.den * b.den)

VecSub(a, b) ==
  Vec(Minus(Scaled(b.den, a.num), Scaled(a.den, b.num)), a.den * b.den)

VecScale(p, q, a) == Vec(Scaled(p, a.num), q * a.den)

\* A unit vector dir / |dir| is kept as [dir, len2] with len2 = dir . dir;
\* normalize() of the zero vector divides by 1 and stays zero.
Normalize(dir) ==
  [dir |-> dir, len2 |-> IF Dot(dir, dir) = 0 THEN 1 ELSE Dot(dir, dir)]

\* normal.clone().negate()
Negate(n) == [dir |-> Scaled(-1, n.dir), len2 |-> n.len2]

\* n.clone().multiplyScalar((p / q) * w.dot(n)), for the unit vector n:
\* (p / q) * (w . dir) * dir / len2
AlongNormal(p, q, w, n) ==
  Vec(Scaled(p * Dot(w.num, n.dir), n.dir), q * w.den * n.len2)

----------------------------------------------------------------------------
(* CollisionSystem: the default collision response.  A body's              *)
(* userData.physics is [has, mass, hasVelocity, velocity]; mass 0 stands   *)
(* for a mass that is 0 or not set.                                        *)

Infinity == -2

NoPhysics == [has |-> FALSE, mass |-> 0, hasVelocity |-> FALSE,
              velocity |-> Vec(Zero3, 1)]

Physics(mass, velocity) ==
  [has |-> TRUE, mass |-> mass, hasVelocity |-> TRUE, velocity |-> velocity]

\* userData.physics = {} on an object that does not move
InertPhysics == [NoPhysics EXCEPT !.has = TRUE]

\* v1.clone().sub(n * (2 * m2 / (m1 + m2) * v1.clone().sub(v2).dot(n)))
ElasticFinal(v1, v2, m1, m2, n) ==
  VecSub(v1, AlongNormal(2 * m2, m1 + m2, VecSub(v1, v2), n))

\* v1.clone().reflect(n): v1 - 2 * v1.dot(n) * n
Reflect(v1, n) == VecSub(v1, AlongNormal(2, 1, v1, n))

\* a response that reflects against a body without physics data as well
ResponseGuardSelfOnly(self, other) == self.has

\* if (self.userData.physics && other.userData.physics)
ResponseGuard(self, other) == self.has /\ other.has

\* a response that copies the final velocities without the energy loss
EnergyLossNone(v, p, q) == v

\* vFinal.multiplyScalar(0.8), vFinal.multiplyScalar(0.5)
EnergyLoss(v, p, q) == VecScale(p, q, v)

\* defaultCollisionResponse(self, other, collisionPoint, collisionNormal),
\* on the two bodies' physics: what it leaves in them, and whether it threw
DefaultCollisionResponse(self, other, n) ==
  IF ~ResponseGuard(self, other)
  THEN [self |-> self, other |-> other, threw |-> FALSE]
  ELSE LET v1 == self.velocity
           v2 == IF other.hasVelocity THEN other.velocity ELSE Vec(Zero3, 1)
           m1 == IF self.mass = 0 THEN 1 ELSE self.mass
           m2 == IF other.mass = 0 THEN Infinity ELSE other.mass
       IN IF m2 # Infinity
          THEN LET v1Final == ElasticFinal(v1, v2, m1, m2, n)
                   v2Final == ElasticFinal(v2, v1, m2, m1, n)
                   self1 == [self EXCEPT !.velocity = EnergyLoss(v1Final, 4, 5)]
               IN IF other.hasVelocity
                  THEN [self |-> self1,
                        other |-> [other EXCEPT
                                     !.velocity = EnergyLoss(v2Final, 4, 5)],
                        threw |-> FALSE]
                  ELSE [self |-> self1, other |-> other, threw |-> TRUE]
          ELSE [self |-> [self EXCEPT
                            !.velocity = EnergyLoss(Reflect(v1, n), 1, 2)],
                other |-> other, threw |-> FALSE]

NoResponse ==
  [called |-> FALSE, self |-> NoPhysics, other |-> NoPhysics,
   otherStatic |-> FALSE, normal |-> Normalize(Zero3),
   result |-> [self |-> NoPhysics, other |-> NoPhysics, threw |-> FALSE]]

----------------------------------------------------------------------------
(* CollisionSystem: registration and update().  The scene has the objects  *)
(* of Objects; object o is a box of size Size(o) around its position.      *)

Objects == {1, 2, 3}

Size(o) == IF o = 3 THEN <<4, 2, 2>> ELSE <<2, 2, 2>>

\* userData.physics of the scene's objects when they are built
BuiltPhysics(o) ==
  CASE o = 1 -> Physics(1, Vec(<<2, 0, 0>>, 1))
    [] o = 2 -> Physics(3, Vec(<<-1, 3, 0>>, 1))
    [] OTHER -> NoPhysics

NoCollider == [kind |-> "none", center |-> Zero3, onCollision |-> "none"]

\* new CollisionSystem(), in a scene whose objects are at the origin
NewCollisionSystem ==
  [ position |-> [o \in Objects |-> Zero3],
    physics |-> [o \in Objects |-> BuiltPhysics(o)],
    collider |-> [o \in Objects |-> NoCollider],
    colliders |-> <<>>,
    staticColliders |-> <<>>,
    updates |-> 0,
    ran |-> FALSE,
    tested |-> <<>>,
    calls |-> <<>> ]

\* boundingBox.setFromObject(object); getBoundingSphere(boundingSphere):
\* the sphere's center is the box's, its diameter the box's diagonal
UpdateCollider(C, o) == [C EXCEPT !.collider[o].center = C.position[o]]

\* registerCollider(object, onCollision)
RegisterCollider(C, o, onCollision) ==
  [UpdateCollider(C, o) EXCEPT
     !.collider[o].kind = "dynamic",
     !.collider[o].onCollision =
        IF onCollision = "none" THEN "default" ELSE onCollision,
     !.colliders = Append(@, o)]

\* registerStaticCollider(object)
RegisterStaticCollider(C, o) ==
  [UpdateCollider(C, o) EXCEPT
     !.collider[o].kind = "static",
     !.collider[o].onCollision = "none",
     !.staticColliders = Append(@, o)]

\* a.boundingSphere.intersectsSphere(b.boundingSphere):
\* |ca - cb|^2 <= (ra + rb)^2 with 2 * ra = |Size(a)|, 2 * rb = |Size(b)|
IntersectsSphere(C, a, b) ==
  LET d == Minus(C.collider[b].center, C.collider[a].center)
      qa == Dot(Size(a), Size(a))
      qb == Dot(Size(b), Size(b))
      rest == 4 * Dot(d, d) - qa - qb
  IN rest <= 0 \/ rest * rest <= 4 * qa * qb

\* a.boundingBox.intersectsBox(b.boundingBox), with doubled coordinates
IntersectsBox(C, a, b) ==
  \A k \in 1..3 :
    /\ 2 * C.collider[b].center[k] + Size(b)[k]
         >= 2 * C.collider[a].center[k] - Size(a)[k]
    /\ 2 * C.collider[b].center[k] - Size(b)[k]
         <= 2 * C.collider[a].center[k] + Size(a)[k]

\* new Vector3(): the midpoint expression under it is computed and dropped
CollisionPoint(C, a, b) == Vec(Zero3, 1)

\* subVectors(b.boundingSphere.center, a.boundingSphere.center).normalize()
CollisionNormal(C, a, b) ==
  Normalize(Minus(C.collider[b].center, C.collider[a].center))

\* self.userData.collider.onCollision(self, other, point, normal)
OnCollision(C, self, other, point, normal) ==
  LET call == [self |-> self, other |-> other, point |-> point,
               normal |-> normal]
      C1 == [C EXCEPT !.calls = Append(@, call)]
  IN IF C.collider[self].onCollision = "default"
     THEN LET r == DefaultCollisionResponse(C.physics[self],
                                            C.physics[other], normal)
          IN [C1 EXCEPT !.physics[self] = r.self, !.physics[other] = r.other]
     ELSE C1

\* the body of the loop over j, for objA = colliders[i], objB = colliders[j]
TestDynamic(C, i, j) ==
  LET objA == C.colliders[i]
      objB == C.colliders[j]
      C1 == [C EXCEPT !.tested = Append(@, <<i, j>>)]
  IN IF IntersectsSphere(C, objA, objB) /\ IntersectsBox(C, objA, objB)
     THEN LET point == CollisionPoint(C, objA, objB)
              normal == CollisionNormal(C, objA, objB)
              C2 == IF C1.collider[objA].onCollision # "none"
                    THEN OnCollision(C1, objA, objB, point, normal)
                    ELSE C1
          IN IF C2.collider[objB].onCollision # "none"
             THEN OnCollision(C2, objB, objA, point, Negate(normal))
             ELSE C2
     ELSE C1

\* the body of the loop over the static colliders, for objA = colliders[i]
TestStatic(C, i, k) ==
  LET objA == C.colliders[i]
      staticObj == C.staticColliders[k]
  IN IF IntersectsSphere(C, objA, staticObj)
        /\ IntersectsBox(C, objA, staticObj)
     THEN IF C.collider[objA].onCollision # "none"
          THEN OnCollision(C, objA, staticObj,
                           CollisionPoint(C, objA, staticObj),
                           CollisionNormal(C, objA, staticObj))
          ELSE C
     ELSE C

\* for (const staticObj of this.staticColliders) { ... }
RECURSIVE StaticLoop(_, _, _)
StaticLoop(C, i, k) ==
  IF k > Len(C.staticColliders) THEN C
  ELSE StaticLoop(TestStatic(C, i, k), i, k + 1)

\* an inner loop that starts over at the first collider
InnerStartFirst(i) == 1

\* let j = i + 1
InnerStart(i) == i + 1

\* for (let j = i + 1; j < this.colliders.length; j++) { ... }
RECURSIVE InnerLoop(_, _, _)
InnerLoop(C, i, j) ==
  IF j > Len(C.colliders) THEN C
  ELSE InnerLoop(TestDynamic(C, i, j), i, j + 1)

\* for (let i = 0; i < this.colliders.length; i++) { ... }
RECURSIVE OuterLoop(_, _)
OuterLoop(C, i) ==
  IF i > Len(C.colliders) THEN C
  ELSE OuterLoop(StaticLoop(InnerLoop(C, i, InnerStart(i)), i, 1), i + 1)

\* for (const object of this.colliders) this.updateCollider(object)
RECURSIVE RefreshColliders(_, _)
RefreshColliders(C, i) ==
  IF i > Len(C.colliders) THEN C
  ELSE RefreshColliders(UpdateCollider(C, C.colliders[i]), i + 1)

Quiet(C) == [C EXCEPT !.ran = FALSE, !.tested = <<>>, !.calls = <<>>]

\* update(deltaTime)
CollisionUpdate(C) ==
  OuterLoop([RefreshColliders(Quiet(C), 1) EXCEPT !.ran = TRUE,
                                                   !.updates = @ + 1], 1)

----------------------------------------------------------------------------
(* GameLoop: the fixed-timestep scheduler.  One time unit is 1/120 s.      *)
(* The operators work on the record L held by `loop`; L.sinceLast is       *)
(* performance.now() / 1000 - L.lastTime, L.requests the animation frame   *)
(* requests the host still holds.  The FPS counters are left out.          *)

FixedTimeStepDefault == 2
MaxDeltaTime == 12
NoRequest == 0

\* the ids the host hands out: one for each request start() may leave
\* pending and one for the request a frame in progress makes
RequestIds == 1..(MaxRequests + 1)
GapValues == {3, 13}
TimeScales == {-1, 0, 1, 2}
FixedSteps == {2, 3}
StepChanges == {1, 4}
Callbacks == {"a", "b"}
SceneCallbacks == {"sceneFixed", "sceneUpdate", "sceneRender"}
Behaviours == {"work", "stop", "removeSelf", "removeOther"}
Range(arr) == {arr[k] : k \in 1..Len(arr)}

Held(L) ==
  Range(L.updateCallbacks) \cup Range(L.renderCallbacks)
    \cup Range(L.fixedUpdateCallbacks)

\* what each callback does when invoked in a frame; the scene's callbacks
\* and the callbacks no array holds leave the loop alone
Scripts(L) ==
  { [c \in Callbacks \cup SceneCallbacks |->
       IF c \in Callbacks \cap Held(L) THEN f[c] ELSE "work"] :
    f \in [Callbacks -> Behaviours] }

Min2(a, b) == IF a < b THEN a ELSE b
Max2(a, b) == IF a > b THEN a ELSE b

Other(cb) == CHOOSE c \in Callbacks : c # cb

\* array.filter(cb => cb !== callback)
RECURSIVE Without(_, _)
Without(arr, callback) ==
  IF arr = <<>> THEN <<>>
  ELSE (IF Head(arr) = callback THEN <<>> ELSE <<Head(arr)>>)
       \o Without(Tail(arr), callback)

\* new GameLoop()
GameLoopInit ==
  [ isRunning |-> FALSE,
    deltaTime |-> 0,
    sinceLast |-> 0,
    fixedTimeStep |-> FixedTimeStepDefault,
    maxDeltaTime |-> MaxDeltaTime,
    accumulatedTime |-> 0,
    timeScale |-> 1,
    updateCallbacks |-> <<>>,
    renderCallbacks |-> <<>>,
    fixedUpdateCallbacks |-> <<>>,
    animationFrameId |-> NoRequest,
    requests |-> {} ]

\* frame.gone: the callbacks no array of the loop holds, because nobody
\* registered them or because removeCallback() took them out
\* frame.hung: the frame never left its while loop
NoFrame ==
  [ran |-> FALSE, gap |-> 0, accBefore |-> 0, passes |-> <<>>, gone |-> {},
   hung |-> FALSE]

\* requestAnimationFrame(this.onFrame): an id no pending request has
RequestFrame(L) ==
  LET id == CHOOSE i \in RequestIds \ L.requests :
              \A j \in RequestIds \ L.requests : i <= j
  IN [L EXCEPT !.animationFrameId = id, !.requests = @ \cup {id}]

\* start()
StartLoop(L) ==
  IF L.isRunning THEN L
  ELSE RequestFrame([L EXCEPT !.isRunning = TRUE, !.sinceLast = 0])

\* stop()
StopLoop(L) ==
  IF ~L.isRunning THEN L
  ELSE IF L.animationFrameId # NoRequest
       THEN [L EXCEPT !.isRunning = FALSE,
                      !.requests = @ \ {L.animationFrameId},
                      !.animationFrameId = NoRequest]
       ELSE [L EXCEPT !.isRunning = FALSE]

\* removeCallback(callback): each field gets a new, filtered array
RemoveCallback(L, callback) ==
  [L EXCEPT !.updateCallbacks = Without(@, callback),
            !.renderCallbacks = Without(@, callback),
            !.fixedUpdateCallbacks = Without(@, callback)]

\* setTimeScale(scale)
SetTimeScale(L, scale) == [L EXCEPT !.timeScale = Max2(0, scale)]

\* setFixedTimeStep(timeStep)
SetFixedTimeStep(L, timeStep) == [L EXCEPT !.fixedTimeStep = timeStep]

\* The work a GameScene callback of setupGameLoop() does when invoked
SceneWork(cb) ==
  CASE cb = "sceneFixed" -> IF isPaused THEN {} ELSE {"physics", "checkpoint"}
    [] cb = "sceneUpdate" -> IF isPaused THEN {} ELSE {"camera", "environment"}
    [] cb = "sceneRender" -> {"render"}
    [] OTHER -> {}

\* One callback invocation, on x = [L, F]: callback(arg).  What the callback
\* does is script[cb]: nothing to the loop, loop.stop(), or
\* loop.removeCallback() of itself or of the other callback.
Invoke(x, cb, arg, script) ==
  LET removes == CASE script[cb] = "removeSelf" -> cb
                   [] script[cb] = "removeOther" -> Other(cb)
                   [] OTHER -> "none"
      call == [cb |-> cb, arg |-> arg, running |-> x.L.isRunning,
               paused |-> isPaused, racePaused |-> racePaused,
               work |-> SceneWork(cb), removes |-> removes]
      n == Len(x.F.passes)
      F1 == [x.F EXCEPT !.passes[n].calls = Append(@, call)]
  IN CASE script[cb] = "stop" -> [L |-> StopLoop(x.L), F |-> F1]
       [] removes # "none" ->
            [L |-> RemoveCallback(x.L, removes),
             F |-> [F1 EXCEPT !.gone = @ \cup {removes}]]
       [] OTHER -> [L |-> x.L, F |-> F1]

BeginPass(x, phase, arr) ==
  [x EXCEPT !.F.passes = Append(@, [phase |-> phase, registered |-> arr,
                                    removedBefore |-> x.F.gone,
                                    calls |-> <<>>])]

\* a loop over an array that removeCallback() shrinks in place
RECURSIVE ForOfLive(_, _, _, _, _)
ForOfLive(x, arr, i, arg, script) ==
  IF i > Len(arr) THEN x
  ELSE LET y == Invoke(x, arr[i], arg, script)
           live == SelectSeq(arr, LAMBDA c : c \notin y.F.gone)
       IN ForOfLive(y, live, i + 1, arg, script)

\* for (const callback of arr) callback(arg): the loop walks the array the
\* field held when the loop began
RECURSIVE ForOf(_, _, _, _, _)
ForOf(x, arr, i, arg, script) ==
  IF i > Len(arr) THEN x
  ELSE ForOf(Invoke(x, arr[i], arg, script), arr, i + 1, arg, script)

\* accumulation that leaves the time scale out
AccumulateUnscaled(accumulatedTime, deltaTime, timeScale) ==
  accumulatedTime + deltaTime

\* this.accumulatedTime += scaledDeltaTime
Accumulate(accumulatedTime, deltaTime, timeScale) ==
  accumulatedTime + deltaTime * timeScale

\* while (this.accumulatedTime >= this.fixedTimeStep) { ... }
RECURSIVE FixedUpdates(_, _)
FixedUpdates(x, script) ==
  IF x.L.accumulatedTime >= x.L.fixedTimeStep
  THEN LET arr == x.L.fixedUpdateCallbacks
           y == ForOf(BeginPass(x, "fixed", arr), arr, 1,
                      x.L.fixedTimeStep, script)
       IN FixedUpdates([y EXCEPT !.L.accumulatedTime = @ - y.L.fixedTimeStep],
                       script)
  ELSE x

\* a frame delta without the cap
UncappedDelta(elapsed, maxDeltaTime) == elapsed

\* Math.min(currentTime - this.lastTime, this.maxDeltaTime)
FrameDelta(elapsed, maxDeltaTime) == Min2(elapsed, maxDeltaTime)

\* onFrame(timestamp), the loop running
OnFrameBody(L, script) ==
  LET deltaTime == FrameDelta(L.sinceLast, L.maxDeltaTime)
      scaledDeltaTime == deltaTime * L.timeScale
      L1 == [L EXCEPT !.deltaTime = deltaTime, !.sinceLast = 0,
                      !.accumulatedTime = Accumulate(@, deltaTime, L.timeScale)]
      x1 == FixedUpdates([L |-> L1,
                          F |-> [NoFrame EXCEPT
                                   !.ran = TRUE,
                                   !.gap = L.sinceLast,
                                   !.accBefore = L.accumulatedTime,
                                   !.gone = Callbacks \ Held(L)]],
                         script)
      x2 == ForOf(BeginPass(x1, "update", x1.L.updateCallbacks),
                  x1.L.updateCallbacks, 1, scaledDeltaTime, script)
      x3 == ForOf(BeginPass(x2, "render", x2.L.renderCallbacks),
                  x2.L.renderCallbacks, 1, scaledDeltaTime, script)
  IN [x3 EXCEPT !.L = RequestFrame(@)]

\* onFrame(timestamp)
OnFrame(L, script) ==
  IF ~L.isRunning THEN [L |-> L, F |-> NoFrame] ELSE OnFrameBody(L, script)

\* onFrame(timestamp) up to its while loop
Entered(L) ==
  LET deltaTime == FrameDelta(L.sinceLast, L.maxDeltaTime)
  IN [L EXCEPT !.deltaTime = deltaTime, !.sinceLast = 0,
               !.accumulatedTime = Accumulate(@, deltaTime, L.timeScale)]

\* while (this.accumulatedTime >= this.fixedTimeStep) with a step that is
\* not positive: every iteration subtracts the step, so the condition that
\* held on entry holds after every iteration
Diverges(L) == L.fixedTimeStep <= 0 /\ L.accumulatedTime >= L.fixedTimeStep

\* onFrame(timestamp) for any fixed step: a frame whose while loop never
\* ends reaches neither the update and render callbacks nor the next request
OnFrameAnyStep(L, script) ==
  IF L.isRunning /\ Diverges(Entered(L))
  THEN [L |-> Entered(L),
        F |-> [NoFrame EXCEPT !.ran = TRUE, !.gap = L.sinceLast,
                              !.accBefore = L.accumulatedTime,
                              !.hung = TRUE]]
  ELSE OnFrame(L, script)

Registered(L) ==
  Len(L.updateCallbacks) + Len(L.renderCallbacks) + Len(L.fixedUpdateCallbacks)

----------------------------------------------------------------------------
(* VehiclePhysics (engine/physics/vehiclePhysics.js).  The program's       *)
(* numbers are doubles; here a quantity x is the integer floor(1000 * x),  *)
(* so lengths are millimetres, speeds mm/s, forces mN and times ms, and    *)
(* every product and quotient is rounded down to a thousandth.             *)

\* the number n/d
Real(n, d) == (n * 1000) \div d

\* floor(a * b / c) for c > 0, split so that no step leaves 32 bits
MulDiv(a, b, c) == (a \div c) * b + ((a % c) * b) \div c

\* a * b and a / b of two quantities
Mul(a, b) == MulDiv(a, b, Real(1, 1))
Div(a, b) == MulDiv(a, Real(1, 1), b)

\* a value taken as it comes
ClampNone(lo, hi, x) == x

\* Math.max(lo, Math.min(hi, x))
Clamp(lo, hi, x) == Max2(lo, Min2(hi, x))

RECURSIVE SqrtBetween(_, _, _)
\* the largest r in lo..hi with r * r <= n
SqrtBetween(n, lo, hi) ==
  IF lo = hi THEN lo
  ELSE LET mid == (lo + hi + 1) \div 2
       IN IF mid * mid <= n THEN SqrtBetween(n, mid, hi)
                            ELSE SqrtBetween(n, lo, mid - 1)

\* Math.sqrt of a sum of squares of thousandths, in thousandths
Sqrt(n) == SqrtBetween(n, 0, 46340)

\* Vector3.length(), .lengthSq(), .multiplyScalar(s), .normalize()
Length(v) == Sqrt(Dot(v, v))
LengthSq(v) == Dot(v, v) \div Real(1, 1)
MultiplyScalar(v, s) == <<Mul(s, v[1]), Mul(s, v[2]), Mul(s, v[3])>>
Normalized(v) ==
  LET len == IF Length(v) = 0 THEN Real(1, 1) ELSE Length(v)
  IN <<Div(v[1], len), Div(v[2], len), Div(v[3], len)>>

\* Math.sin and Math.cos by their Taylor polynomials; the angles of one
\* step are a few hundredths of a radian
Sin(a) == a - Mul(Mul(Mul(a, a), a), Real(1, 6))
Cos(a) == Real(1, 1) - Mul(Mul(a, a), Real(1, 2))
            + Mul(Mul(Mul(Mul(a, a), a), a), Real(1, 24))

\* The rotation only ever turns about the y axis (the steering torque is
\* along the vehicle's up direction, which starts as +y), so a Quaternion
\* is kept as its y and w components; x and z stay 0.
Identity == [y |-> 0, w |-> Real(1, 1)]

\* new Quaternion().setFromAxisAngle(new Vector3(0, 1, 0), angle)
SetFromAxisAngleY(angle) == [y |-> Sin(angle \div 2), w |-> Cos(angle \div 2)]

\* q.premultiply(d): d * q
Premultiply(q, d) ==
  [y |-> Mul(d.w, q.y) + Mul(d.y, q.w), w |-> Mul(d.w, q.w) - Mul(d.y, q.y)]

\* q.normalize()
NormalizeQuaternion(q) ==
  LET len == Sqrt(q.y * q.y + q.w * q.w)
  IN IF len = 0 THEN Identity ELSE [y |-> Div(q.y, len), w |-> Div(q.w, len)]

\* v.applyQuaternion(q)
ApplyQuaternion(v, q) ==
  LET cos == Real(1, 1) - 2 * Mul(q.y, q.y)
      sin == 2 * Mul(q.y, q.w)
  IN <<Mul(v[1], cos) + Mul(v[3], sin), v[2], Mul(v[3], cos) - Mul(v[1], sin)>>

\* this.config with no vehicleConfig overrides; nothing assigns to it after
\* the constructor, so it is kept outside the state
VehicleConfig ==
  [maxSpeed |-> Real(200, 1), acceleration |-> Real(10, 1),
   deceleration |-> Real(5, 1), braking |-> Real(15, 1),
   maxSteeringAngle |-> Real(5236, 10000), steeringSpeed |-> Real(25, 10),
   steeringReturn |-> Real(1, 1), suspensionHeight |-> Real(5, 10),
   suspensionStiffness |-> Real(10, 1), suspensionDamping |-> Real(8, 10),
   suspensionTravel |-> Real(3, 10), mass |-> 1200,
   dragCoefficient |-> Real(3, 10), rollingResistance |-> Real(1, 10),
   wheelBase |-> Real(28, 10), trackWidth |-> Real(16, 10),
   wheelRadius |-> Real(35, 100)]

\* the wheels' positions in the vehicle's frame (front left, front right,
\* rear left, rear right); nothing assigns to them after the constructor
WheelPositions ==
  LET c == VehicleConfig
  IN <<<<-(c.trackWidth \div 2), 0, c.wheelBase \div 2>>,
       <<c.trackWidth \div 2, 0, c.wheelBase \div 2>>,
       <<-(c.trackWidth \div 2), 0, -(c.wheelBase \div 2)>>,
       <<c.trackWidth \div 2, 0, -(c.wheelBase \div 2)>>>>

\* the rest of a wheel's record
Wheel == [onGround |-> FALSE, suspensionForce |-> 0, rotation |-> 0]

\* what the latest update() computed, before any update()
NoUpdate ==
  [ran |-> FALSE, dt |-> 0, before |-> Zero3, steering |-> 0,
   throttle |-> 0, ground |-> <<0, 0, 0, 0>>, distance |-> <<0, 0, 0, 0>>,
   gravity |-> Zero3, suspension |-> Zero3, engine |-> Zero3,
   brake |-> Zero3, drag |-> Zero3, rolling |-> Zero3, torque |-> Zero3]

\* new VehiclePhysics()
NewVehiclePhysics ==
  LET c == VehicleConfig
  IN [position |-> <<0, c.suspensionHeight, 0>>,
      rotation |-> Identity,
      velocity |-> Zero3,
      angularVelocity |-> Zero3,
      throttle |-> 0, brake |-> 0, steering |-> 0,
      wheels |-> [i \in 1..4 |-> Wheel],
      speedKmh |-> 0, rpm |-> 0, gear |-> 1,
      calls |-> 0,          \* setControls() calls so far
      asked |-> {},         \* the fields the latest of them carried
      steerRun |-> 0,       \* of them, the leading ones that only asked
                            \* for steering 1, or null once the run broke
      updates |-> 0,
      last |-> NoUpdate]

\* setControls(controls); a field left out of controls is undefined
SetControls(V, controls) ==
  LET has(f) == f \in DOMAIN controls
      v1 == IF has("throttle")
            THEN [V EXCEPT !.throttle =
                    Clamp(-Real(1, 1), Real(1, 1), controls.throttle)]
            ELSE V
      v2 == IF has("brake")
            THEN [v1 EXCEPT !.brake = Clamp(0, Real(1, 1), controls.brake)]
            ELSE v1
      targetSteering == Clamp(-Real(1, 1), Real(1, 1), controls.steering)
      step == Mul(VehicleConfig.steeringSpeed, Real(16, 1000))
  IN IF ~has("steering") THEN v2
     ELSE IF v2.steering < targetSteering
     THEN [v2 EXCEPT !.steering = Min2(targetSteering, @ + step)]
     ELSE IF v2.steering > targetSteering
     THEN [v2 EXCEPT !.steering = Max2(targetSteering, @ - step)]
     ELSE v2

\* getHeightAt(x, z) of the terrains tried; "none" is a call of update()
\* without the function, which assumes flat ground at y = 0
Terrains == {"none", "flat", "ledge", "pit", "edge"}

HeightAt(terrain, x, z) ==
  CASE terrain = "ledge" -> -Real(3, 10)
    [] terrain = "pit" -> -Real(1, 1)
    [] terrain = "edge" -> IF z > 0 THEN -Real(1, 1) ELSE 0
    [] OTHER -> 0

UpDir(V) == ApplyQuaternion(<<0, Real(1, 1), 0>>, V.rotation)
ForwardDir(V) == ApplyQuaternion(<<0, 0, Real(1, 1)>>, V.rotation)

WheelPos(V, i) ==
  Plus(ApplyQuaternion(WheelPositions[i], V.rotation), V.position)

DistanceToGround(V, terrain, i) ==
  WheelPos(V, i)[2] - HeightAt(terrain, WheelPos(V, i)[1], WheelPos(V, i)[3])

\* the test of one wheel's ray: distanceToGround < rayLength
Touches(distanceToGround, rayLength) == distanceToGround < rayLength

\* the body of updateSuspension()'s loop for wheel i
SuspendWheel(V, terrain, i) ==
  LET c == VehicleConfig
      restHeight == c.suspensionHeight
      rayLength == c.suspensionHeight + c.suspensionTravel
      distanceToGround == DistanceToGround(V, terrain, i)
      compressionRatio == Real(1, 1) - Div(distanceToGround, restHeight)
      springForce ==
        Mul(Mul(compressionRatio, c.suspensionStiffness) * c.mass,
            Real(981, 100)) \div 4
      verticalVelocity == Dot(V.velocity, UpDir(V)) \div Real(1, 1)
      dampingForce == Mul(verticalVelocity, c.suspensionDamping)
  IN IF Touches(distanceToGround, rayLength)
     THEN [V.wheels[i] EXCEPT !.onGround = TRUE,
             !.suspensionForce = Max2(0, springForce - dampingForce)]
     ELSE [V.wheels[i] EXCEPT !.onGround = FALSE, !.suspensionForce = 0]

\* updateSuspension(getHeightAt)
UpdateSuspension(V, terrain) ==
  [V EXCEPT !.wheels = [i \in 1..4 |-> SuspendWheel(V, terrain, i)],
            !.last.ground =
              [i \in 1..4 |->
                 HeightAt(terrain, WheelPos(V, i)[1], WheelPos(V, i)[3])],
            !.last.distance = [i \in 1..4 |-> DistanceToGround(V, terrain, i)]]

WheelsOnGround(V) == Cardinality({i \in 1..4 : V.wheels[i].onGround})

\* the engine force with no wheel on the ground required
EngineGateOpen(wheelsOnGround) == TRUE

\* the gate of the engine force, the steering torque, the rolling
\* resistance and the steering return: wheelsOnGround > 0
EngineGate(wheelsOnGround) == wheelsOnGround > 0

\* applyForces(dt)
ApplyForces(V, dt) ==
  LET c == VehicleConfig
      forwardDir == ForwardDir(V)
      upDir == UpDir(V)
      gravity == <<0, -(Real(981, 100) * c.mass), 0>>
      totalSuspensionForce ==
        MultiplyScalar(upDir,
          V.wheels[1].suspensionForce * (IF V.wheels[1].onGround THEN 1 ELSE 0)
          + V.wheels[2].suspensionForce * (IF V.wheels[2].onGround THEN 1 ELSE 0)
          + V.wheels[3].suspensionForce * (IF V.wheels[3].onGround THEN 1 ELSE 0)
          + V.wheels[4].suspensionForce * (IF V.wheels[4].onGround THEN 1 ELSE 0))
      wheelsOnGround == WheelsOnGround(V)
      velocitySq == LengthSq(V.velocity)
      velDir == Normalized(V.velocity)
      steers == Abs(V.steering) > Real(1, 100) /\ EngineGate(wheelsOnGround)
      engineForce ==
        IF EngineGate(wheelsOnGround)
        THEN MultiplyScalar(forwardDir, Mul(V.throttle, c.acceleration) * c.mass)
        ELSE Zero3
      brakeForce ==
        IF V.brake > 0 /\ velocitySq > Real(1, 10)
        THEN MultiplyScalar(velDir, -(Mul(V.brake, c.braking) * c.mass))
        ELSE Zero3
      steeringTorque ==
        IF steers
        THEN LET steeringAngle == Mul(V.steering, c.maxSteeringAngle)
             IN MultiplyScalar(upDir,
                  Mul(Mul(steeringAngle, Length(V.velocity)), Real(1, 2)))
        ELSE Zero3
      dragForce ==
        IF velocitySq > Real(1, 10)
        THEN MultiplyScalar(velDir, -Mul(c.dragCoefficient, velocitySq))
        ELSE Zero3
      rollingResistance ==
        IF velocitySq > Real(1, 10) /\ EngineGate(wheelsOnGround)
        THEN MultiplyScalar(velDir,
               -Mul(c.rollingResistance * c.mass, Real(981, 100)))
        ELSE Zero3
      totalForce ==
        Plus(Plus(Plus(Plus(Plus(gravity, totalSuspensionForce), engineForce),
                       brakeForce), dragForce), rollingResistance)
      acceleration ==
        <<totalForce[1] \div c.mass, totalForce[2] \div c.mass,
          totalForce[3] \div c.mass>>
      turned ==
        Plus(V.angularVelocity, MultiplyScalar(steeringTorque, dt))
      returned == Mul(V.steering, Real(1, 1) - Mul(c.steeringReturn, dt))
  IN [V EXCEPT
        !.velocity = Plus(@, MultiplyScalar(acceleration, dt)),
        !.angularVelocity = MultiplyScalar(turned, Real(95, 100)),
        !.steering =
          IF steers
          THEN IF Abs(returned) < Real(1, 100) THEN 0 ELSE returned
          ELSE @,
        !.last.gravity = gravity,
        !.last.suspension = totalSuspensionForce,
        !.last.engine = engineForce,
        !.last.brake = brakeForce,
        !.last.drag = dragForce,
        !.last.rolling = rollingResistance,
        !.last.torque = steeringTorque]

\* the gear chosen by update()'s loop over the speed thresholds
GearAt(speedKmh) ==
  1 + Cardinality({i \in 1..5 : speedKmh > i * Real(30, 1)})

GearRatios ==
  <<Real(266, 100), Real(178, 100), Real(13, 10), Real(1, 1),
    Real(74, 100), Real(5, 10)>>

\* the rpm update() leaves, clamped to the range 800..8000
RpmAt(V, speedKmh) ==
  LET wheelCircumference == Mul(Real(62832, 10000), VehicleConfig.wheelRadius)
      wheelRpm ==
        Div(Div(speedKmh, Real(36, 10)) * 60, wheelCircumference)
      rpm == Mul(Mul(wheelRpm, GearRatios[GearAt(speedKmh)]),
                 Real(342, 100))
  IN Max2(Real(800, 1), Min2(Real(8000, 1), rpm))

\* const dt = Math.min(deltaTime, 0.1)
CappedStep(deltaTime) == Min2(deltaTime, Real(1, 10))

\* update(deltaTime, getHeightAt)
VehicleUpdate(V, deltaTime, terrain) ==
  LET dt == CappedStep(deltaTime)
      v0 == [V EXCEPT !.last =
               [NoUpdate EXCEPT !.ran = TRUE, !.dt = dt,
                  !.before = V.velocity, !.steering = V.steering,
                  !.throttle = V.throttle]]
      v1 == ApplyForces(UpdateSuspension(v0, terrain), dt)
      angularDelta == MultiplyScalar(v1.angularVelocity, dt)
      wheelCircumference == Mul(Real(62832, 10000), VehicleConfig.wheelRadius)
      wheelRotationPerMeter == Div(Real(62832, 10000), wheelCircumference)
      distanceTraveled == Mul(Length(v1.velocity), dt)
      speedKmh == Mul(Length(v1.velocity), Real(36, 10))
  IN [v1 EXCEPT
        !.position = Plus(@, MultiplyScalar(v1.velocity, dt)),
        !.rotation =
          NormalizeQuaternion(
            Premultiply(@, SetFromAxisAngleY(angularDelta[2]))),
        !.wheels =
          [i \in 1..4 |->
             IF v1.wheels[i].onGround
             THEN [v1.wheels[i] EXCEPT
                     !.rotation = @ + Mul(distanceTraveled, wheelRotationPerMeter)]
             ELSE v1.wheels[i]],
        !.speedKmh = speedKmh,
        !.gear = GearAt(speedKmh),
        !.rpm = RpmAt(v1, speedKmh)]

\* getPerformanceMetrics()
GetPerformanceMetrics(V) ==
  [speedKmh |-> V.speedKmh, rpm |-> V.rpm, gear |-> V.gear,
   wheelsOnGround |-> WheelsOnGround(V)]

----------------------------------------------------------------------------
(* Actions on a CheckpointSystem driven through its public methods.        *)

Init ==
  /\ \E n \in 1..MaxCheckpoints, l \in 1..MaxLaps :
       /\ cs = CheckpointSystemInit(n, l, 1)
       /\ rs = RaceStateInit(n, l, 2)
  /\ isPaused = FALSE
  /\ intervals = 0
  /\ lapTimers = 0
  /\ cpTimers = 0
  /\ trace = <<>>
  /\ loop = GameLoopInit
  /\ resp = NoResponse
  /\ coll = NewCollisionSystem
  /\ veh = NewVehiclePhysics
  /\ frame = NoFrame
  /\ racePaused = FALSE
  /\ heap = [i \in ArrayIds |-> <<>>]
  /\ wallSinceStart = 0
  /\ events = <<>>
  /\ passCount = 0
  /\ finishedCount = 0
  /\ snaps = [i \in SnapSlots |-> NoSnap]
  /\ snapTaken = [i \in SnapSlots |-> <<>>]
  /\ ownLapTimes = <<>>

\* startRace(): reset(), raceStartTime = performance.now(), isRaceStarted
StartRace ==
  LET ref == NewArrayId(SnapRefs(snaps) \cup {rs.lapTimes})
  IN /\ cs' = CheckpointStartRace(cs, ref)
     /\ heap' = [Collect(heap, SnapRefs(snaps) \cup {rs.lapTimes, ref})
                   EXCEPT ![ref] = <<>>]
     /\ wallSinceStart' = 0
     /\ events' = <<>>
     /\ passCount' = 0
     /\ finishedCount' = 0
     /\ ownLapTimes' = <<>>
     /\ UNCHANGED <<loopVars, physVars, snaps, snapTaken, sceneVars>>

UpdateCall(deltaTime, vehiclePosition, elapsed) ==
  LET wall == wallSinceStart + elapsed
      r == Update([cs |-> cs, heap |-> heap, events |-> <<>>],
                  deltaTime, vehiclePosition, wall)
  IN /\ wall <= MaxWall
     /\ cs' = r.cs
     /\ heap' = r.heap
     /\ wallSinceStart' = wall
     /\ events' = r.events
     /\ passCount' = passCount + CountEvents(r.events, "checkpointPassed")
     /\ finishedCount' = finishedCount + CountEvents(r.events, "raceFinished")
     /\ ownLapTimes' = ownLapTimes \o LapTimesOf(r.events)
     /\ UNCHANGED <<loopVars, physVars, snaps, snapTaken, sceneVars>>

UpdateStep ==
  \E dt \in DtSteps, e \in WallSteps, p \in VehiclePositions(cs.numCheckpoints) :
    UpdateCall(dt, p, e)

NextCheckpoint == StartRace \/ UpdateStep

SpecCheckpoint == Init /\ [][NextCheckpoint]_vars

\* update() called once per time unit, with a time step of one unit
TickCall(vehiclePosition) == UpdateCall(1, vehiclePosition, 1)

TickStep == \E p \in VehiclePositions(cs.numCheckpoints) : TickCall(p)

NextTraverse == StartRace \/ TickStep

SpecTraverse == Init /\ [][NextTraverse]_vars

----------------------------------------------------------------------------
(* A client that keeps what getRaceState() returned and writes to it.      *)

ClientValues == {0}

\* snaps[i] = checkpointSystem.getRaceState()
TakeSnapshot(i) ==
  /\ snaps' = [snaps EXCEPT ![i] = Kept(GetRaceState(cs))]
  /\ snapTaken' = [snapTaken EXCEPT ![i] = heap[cs.lapTimes]]
  /\ heap' = Collect(heap, SnapRefs(snaps') \cup {cs.lapTimes, rs.lapTimes})
  /\ events' = <<>>
  /\ UNCHANGED <<loopVars, physVars, cs, wallSinceStart, passCount, finishedCount, ownLapTimes,
                 sceneVars>>

\* snaps[i].lapTimes.push(v)
ClientPush(i, v) ==
  /\ snaps[i].held
  /\ Len(heap[snaps[i].lapTimes]) < MaxLapTimesLen
  /\ heap' = [heap EXCEPT ![snaps[i].lapTimes] = Append(@, v)]
  /\ snapTaken' = [snapTaken EXCEPT ![i] = heap'[snaps[i].lapTimes]]
  /\ events' = <<>>
  /\ UNCHANGED <<loopVars, physVars, cs, wallSinceStart, passCount, finishedCount, snaps,
                 ownLapTimes, sceneVars>>

\* snaps[i].lapTimes.length = 0
ClientClear(i) ==
  /\ snaps[i].held
  /\ heap[snaps[i].lapTimes] # <<>>
  /\ heap' = [heap EXCEPT ![snaps[i].lapTimes] = <<>>]
  /\ snapTaken' = [snapTaken EXCEPT ![i] = <<>>]
  /\ events' = <<>>
  /\ UNCHANGED <<loopVars, physVars, cs, wallSinceStart, passCount, finishedCount, snaps,
                 ownLapTimes, sceneVars>>

SnapUpdateStep ==
  /\ wallSinceStart < MaxSnapWall
  /\ \E p \in VehiclePositions(cs.numCheckpoints) : UpdateCall(1, p, 1)

NextSnap ==
  \/ StartRace
  \/ SnapUpdateStep
  \/ \E i \in SnapSlots : TakeSnapshot(i)
  \/ \E i \in SnapSlots, v \in ClientValues : ClientPush(i, v)
  \/ \E i \in SnapSlots : ClientClear(i)

SpecSnap == Init /\ [][NextSnap]_vars

----------------------------------------------------------------------------
(* GameScene driven by the game loop and by timers.                        *)

\* the fixed-update callback registered by setupGameLoop()
SceneFixedUpdate(fixedDeltaTime, vehiclePosition, elapsed) ==
  LET wall == wallSinceStart + elapsed
      b == FixedUpdateBody(cs, rs, heap, fixedDeltaTime, vehiclePosition, wall,
                           SnapRefs(snaps) \cup {cs.lapTimes})
  IN /\ wall <= MaxSceneWall
     /\ lapTimers < MaxTimers
     /\ cpTimers < MaxTimers
     /\ wallSinceStart' = wall
     /\ IF isPaused
        THEN /\ trace' = <<Step("fixedUpdate")>>
             /\ events' = <<>>
             /\ UNCHANGED <<cs, heap, passCount, finishedCount, ownLapTimes,
                            rs, lapTimers, cpTimers>>
        ELSE /\ cs' = b.cs
             /\ rs' = b.rs
             /\ heap' = Collect(b.heap, SnapRefs(snaps)
                                          \cup {b.cs.lapTimes, b.rs.lapTimes})
             /\ events' = b.events
             /\ passCount' = passCount + CountEvents(b.events, "checkpointPassed")
             /\ finishedCount' = finishedCount + CountEvents(b.events, "raceFinished")
             /\ ownLapTimes' = ownLapTimes \o LapTimesOf(b.events)
             /\ lapTimers' = lapTimers + CountEvents(b.events, "lapCompleted")
             /\ cpTimers' = cpTimers + CountEvents(b.events, "checkpointPassed")
             /\ trace' = b.trace
     /\ UNCHANGED <<loopVars, physVars, snaps, snapTaken, isPaused, intervals>>

SceneTick ==
  \E p \in VehiclePositions(cs.numCheckpoints) : SceneFixedUpdate(1, p, 1)

\* setTimeout(() => { this.raceState.lapCompleted = false }, 100)
LapTimerFires ==
  /\ lapTimers > 0
  /\ lapTimers' = lapTimers - 1
  /\ rs' = [rs EXCEPT !.lapCompleted = FALSE]
  /\ trace' = <<Step("timer")>>
  /\ events' = <<>>
  /\ UNCHANGED <<loopVars, physVars, cs, heap, wallSinceStart, passCount, finishedCount, snaps,
                 snapTaken, ownLapTimes, isPaused, intervals, cpTimers>>

\* setTimeout(() => { this.raceState.checkpointPassed = false }, 100)
CheckpointTimerFires ==
  /\ cpTimers > 0
  /\ cpTimers' = cpTimers - 1
  /\ rs' = [rs EXCEPT !.checkpointPassed = FALSE]
  /\ trace' = <<Step("timer")>>
  /\ events' = <<>>
  /\ UNCHANGED <<loopVars, physVars, cs, heap, wallSinceStart, passCount, finishedCount, snaps,
                 snapTaken, ownLapTimes, isPaused, intervals, lapTimers>>

\* startRaceCountdown(): raceState reset, checkpointSystem.reset(), and a
\* one-second interval started
StartRaceCountdown ==
  LET ref1 == NewArrayId(SnapRefs(snaps) \cup {cs.lapTimes})
      ref2 == NewArrayId(SnapRefs(snaps) \cup {ref1})
  IN /\ intervals < MaxIntervals
     /\ rs' = [rs EXCEPT !.isRaceStarted = FALSE, !.isRaceFinished = FALSE,
                         !.countdown = CountdownFrom, !.currentLap = 1,
                         !.currentLapTime = 0, !.lastLapTime = 0,
                         !.bestLapTime = null, !.lapTimes = ref1,
                         !.raceTime = 0]
     /\ cs' = Reset(cs, ref2)
     /\ heap' = [Collect(heap, SnapRefs(snaps) \cup {ref1, ref2})
                   EXCEPT ![ref1] = <<>>, ![ref2] = <<>>]
     /\ intervals' = intervals + 1
     /\ trace' = <<Step("startRaceCountdown")>>
     /\ events' = <<>>
     /\ wallSinceStart' = 0
     /\ passCount' = 0
     /\ finishedCount' = 0
     /\ ownLapTimes' = <<>>
     /\ UNCHANGED <<loopVars, physVars, snaps, snapTaken, isPaused, lapTimers, cpTimers>>

\* GameScene.startRace(), on g = [rs, heap, trace], with the checkpoint
\* system's startRace() given the new array `ref`
SceneStartRace(g) ==
  Publish([g EXCEPT !.rs.isRaceStarted = TRUE, !.rs.countdown = 0])

\* one firing of a countdown interval
CountdownTick ==
  LET g1 == Publish([rs |-> [rs EXCEPT !.countdown = @ - 1], heap |-> heap,
                     trace |-> <<Step("countdownTick")>>])
      ref == NewArrayId(SnapRefs(snaps) \cup {rs.lapTimes})
      h2 == [Collect(heap, SnapRefs(snaps) \cup {rs.lapTimes, ref})
               EXCEPT ![ref] = <<>>]
      g2 == SceneStartRace([g1 EXCEPT !.heap = h2])
  IN /\ intervals > 0
     /\ events' = <<>>
     /\ IF g1.rs.countdown <= 0
        THEN /\ intervals' = intervals - 1
             /\ cs' = CheckpointStartRace(cs, ref)
             /\ heap' = h2
             /\ rs' = g2.rs
             /\ trace' = g2.trace
             /\ wallSinceStart' = 0
             /\ passCount' = 0
             /\ finishedCount' = 0
             /\ ownLapTimes' = <<>>
        ELSE /\ rs' = g1.rs
             /\ trace' = g1.trace
             /\ UNCHANGED <<cs, heap, intervals, wallSinceStart, passCount,
                            finishedCount, ownLapTimes>>
     /\ UNCHANGED <<loopVars, physVars, snaps, snapTaken, isPaused, lapTimers, cpTimers>>

\* GameScene.togglePause()
SceneTogglePause ==
  /\ isPaused' = ~isPaused
  /\ trace' = <<Step("togglePause")>>
  /\ events' = <<>>
  /\ UNCHANGED <<loopVars, physVars, cs, heap, wallSinceStart, passCount, finishedCount, snaps,
                 snapTaken, ownLapTimes, rs, intervals, lapTimers, cpTimers>>

NextScene ==
  \/ StartRaceCountdown
  \/ CountdownTick
  \/ SceneTick
  \/ LapTimerFires
  \/ CheckpointTimerFires
  \/ SceneTogglePause

SpecScene == Init /\ [][NextScene]_vars

----------------------------------------------------------------------------
(* GameLoop driven by its owner, by its callbacks and by the host's frames *)

\* loop.start()
LoopStart ==
  /\ Cardinality(loop.requests) < MaxRequests
  /\ loop' = StartLoop(loop)
  /\ frame' = NoFrame
  /\ UNCHANGED <<csVars, sceneVars, physVars, racePaused>>

\* loop.stop()
LoopStop ==
  /\ loop' = StopLoop(loop)
  /\ frame' = NoFrame
  /\ UNCHANGED <<csVars, sceneVars, physVars, racePaused>>

\* loop.onUpdate(callback)
OnUpdate(callback) ==
  /\ Registered(loop) < MaxCallbacks
  /\ loop' = [loop EXCEPT !.updateCallbacks = Append(@, callback)]
  /\ frame' = NoFrame
  /\ UNCHANGED <<csVars, sceneVars, physVars, racePaused>>

\* loop.onRender(callback)
OnRender(callback) ==
  /\ Registered(loop) < MaxCallbacks
  /\ loop' = [loop EXCEPT !.renderCallbacks = Append(@, callback)]
  /\ frame' = NoFrame
  /\ UNCHANGED <<csVars, sceneVars, physVars, racePaused>>

\* loop.onFixedUpdate(callback)
OnFixedUpdate(callback) ==
  /\ Registered(loop) < MaxCallbacks
  /\ loop' = [loop EXCEPT !.fixedUpdateCallbacks = Append(@, callback)]
  /\ frame' = NoFrame
  /\ UNCHANGED <<csVars, sceneVars, physVars, racePaused>>

\* loop.removeCallback(callback), called between frames
LoopRemoveCallback(callback) ==
  /\ loop' = RemoveCallback(loop, callback)
  /\ frame' = NoFrame
  /\ UNCHANGED <<csVars, sceneVars, physVars, racePaused>>

\* loop.setTimeScale(scale)
LoopSetTimeScale(scale) ==
  /\ loop' = SetTimeScale(loop, scale)
  /\ frame' = NoFrame
  /\ UNCHANGED <<csVars, sceneVars, physVars, racePaused>>

\* loop.setFixedTimeStep(timeStep)
LoopSetFixedTimeStep(timeStep) ==
  /\ loop' = SetFixedTimeStep(loop, timeStep)
  /\ frame' = NoFrame
  /\ UNCHANGED <<csVars, sceneVars, physVars, racePaused>>

\* performance.now() advances
TimePasses ==
  /\ \E t \in GapValues :
       /\ t > loop.sinceLast
       /\ loop' = [loop EXCEPT !.sinceLast = t]
  /\ frame' = NoFrame
  /\ UNCHANGED <<csVars, sceneVars, physVars, racePaused>>

\* the host runs the animation frame request id: onFrame(timestamp)
Frame(id, script) ==
  /\ id \in loop.requests
  /\ LET x == OnFrame([loop EXCEPT !.requests = @ \ {id}], script)
     IN /\ loop' = x.L
        /\ frame' = x.F
  /\ UNCHANGED <<csVars, sceneVars, physVars, racePaused>>

FrameStep == \E id \in RequestIds, script \in Scripts(loop) : Frame(id, script)

NextLoop ==
  \/ LoopStart
  \/ LoopStop
  \/ \E cb \in Callbacks : OnUpdate(cb)
  \/ \E cb \in Callbacks : OnRender(cb)
  \/ \E cb \in Callbacks : OnFixedUpdate(cb)
  \/ \E cb \in Callbacks : LoopRemoveCallback(cb)
  \/ \E scale \in TimeScales : LoopSetTimeScale(scale)
  \/ \E timeStep \in FixedSteps : LoopSetFixedTimeStep(timeStep)
  \/ TimePasses
  \/ FrameStep

\* loop.start(), also while a request made by a stopped frame is pending
ChainStart ==
  /\ Cardinality(loop.requests) <= MaxRequests
  /\ loop' = StartLoop(loop)
  /\ frame' = NoFrame
  /\ UNCHANGED <<csVars, sceneVars, physVars, racePaused>>

\* start(), stop(), registrations and the host's frames
NextChain ==
  \/ ChainStart
  \/ LoopStop
  \/ \E cb \in Callbacks : OnUpdate(cb)
  \/ \E cb \in Callbacks : OnFixedUpdate(cb)
  \/ TimePasses
  \/ FrameStep

\* the loop on its own: the race objects stay as constructed
InitLoop == Init /\ cs.numCheckpoints = 1 /\ cs.totalLaps = 1

SpecLoop == InitLoop /\ [][NextLoop]_vars

SpecChain == InitLoop /\ [][NextChain]_vars

\* the values setFixedTimeStep() is called with
AnySteps == {-1, 0, 2, 3}

\* the host runs the animation frame request id, for any fixed step
FrameAnyStep(id, script) ==
  /\ ~frame.hung
  /\ id \in loop.requests
  /\ LET x == OnFrameAnyStep([loop EXCEPT !.requests = @ \ {id}], script)
     IN /\ loop' = x.L
        /\ frame' = x.F
  /\ UNCHANGED <<csVars, sceneVars, physVars, racePaused>>

\* nothing runs on the thread of a frame that is still in its while loop
NextAnyStep ==
  \/ ~frame.hung /\ LoopStart
  \/ ~frame.hung /\ \E cb \in Callbacks : OnFixedUpdate(cb)
  \/ ~frame.hung /\ \E scale \in TimeScales : LoopSetTimeScale(scale)
  \/ ~frame.hung /\ \E timeStep \in AnySteps : LoopSetFixedTimeStep(timeStep)
  \/ ~frame.hung /\ TimePasses
  \/ \E id \in RequestIds, script \in Scripts(loop) : FrameAnyStep(id, script)

SpecAnyStep == InitLoop /\ [][NextAnyStep]_vars

----------------------------------------------------------------------------
(* The loop's timing on its own: callbacks that leave the loop alone, and  *)
(* a fixed step that is lengthened and shortened between frames.           *)

QuietScript == [c \in Callbacks \cup SceneCallbacks |-> "work"]

FrameQuiet == \E id \in RequestIds : Frame(id, QuietScript)

NextTiming ==
  \/ LoopStart
  \/ LoopStop
  \/ \E cb \in Callbacks : OnFixedUpdate(cb)
  \/ \E scale \in TimeScales : LoopSetTimeScale(scale)
  \/ \E timeStep \in StepChanges : LoopSetFixedTimeStep(timeStep)
  \/ TimePasses
  \/ FrameQuiet

SpecTiming == InitLoop /\ [][NextTiming]_vars

----------------------------------------------------------------------------
(* Pausing: GameScene's three callbacks on the loop, GameScene.isPaused,   *)
(* and RaceScene's togglePause() that stops and starts the loop.           *)

\* GameScene.setupGameLoop()
SetupGameLoop ==
  /\ Registered(loop) = 0
  /\ loop' = [loop EXCEPT !.fixedUpdateCallbacks = Append(@, "sceneFixed"),
                          !.updateCallbacks = Append(@, "sceneUpdate"),
                          !.renderCallbacks = Append(@, "sceneRender")]
  /\ frame' = NoFrame
  /\ UNCHANGED <<csVars, sceneVars, physVars, racePaused>>

\* the scene's mount effect: gameLoop.start()
SceneMount ==
  /\ Registered(loop) > 0
  /\ ~racePaused
  /\ LoopStart

\* RaceScene togglePause()
RaceTogglePause ==
  /\ racePaused => Cardinality(loop.requests) < MaxRequests
  /\ racePaused' = ~racePaused
  /\ loop' = IF ~racePaused THEN StopLoop(loop) ELSE StartLoop(loop)
  /\ frame' = NoFrame
  /\ UNCHANGED <<csVars, sceneVars, physVars>>

NextPause ==
  \/ SetupGameLoop
  \/ SceneMount
  \/ SceneTogglePause
  \/ RaceTogglePause
  \/ TimePasses
  \/ FrameStep

SpecPause == InitLoop /\ [][NextPause]_vars

----------------------------------------------------------------------------
(* A scene that registers its objects, moves them and runs update()        *)

Positions == {Zero3, <<3, 0, 0>>, <<1, 2, 0>>, <<9, 0, 0>>}

\* collisionSystem.registerCollider(object, onCollision)
CollRegister(o, onCollision) ==
  /\ coll.updates < MaxCollisionUpdates
  /\ coll.collider[o].kind = "none"
  /\ coll' = RegisterCollider(Quiet(coll), o, onCollision)
  /\ UNCHANGED <<csVars, sceneVars, loopVars, resp, veh>>

\* collisionSystem.registerStaticCollider(object)
CollRegisterStatic(o) ==
  /\ coll.updates < MaxCollisionUpdates
  /\ coll.collider[o].kind = "none"
  /\ coll' = RegisterStaticCollider(Quiet(coll), o)
  /\ UNCHANGED <<csVars, sceneVars, loopVars, resp, veh>>

\* object.position.copy(position), for a body that moves: it has physics
\* data and is not registered as track geometry
MoveObject(o, position) ==
  /\ coll.updates < MaxCollisionUpdates
  /\ coll.physics[o].has
  /\ coll.collider[o].kind # "static"
  /\ coll.position[o] # position
  /\ coll' = [Quiet(coll) EXCEPT !.position[o] = position]
  /\ UNCHANGED <<csVars, sceneVars, loopVars, resp, veh>>

\* collisionSystem.update(fixedDeltaTime)
CollUpdate ==
  /\ coll.updates < MaxCollisionUpdates
  /\ coll' = CollisionUpdate(coll)
  /\ UNCHANGED <<csVars, sceneVars, loopVars, resp, veh>>

NextCollision ==
  \/ \E o \in Objects, cb \in {"none", "custom"} : CollRegister(o, cb)
  \/ \E o \in Objects : CollRegisterStatic(o)
  \/ \E o \in Objects, position \in Positions : MoveObject(o, position)
  \/ CollUpdate

SpecCollision == InitLoop /\ [][NextCollision]_vars

----------------------------------------------------------------------------
(* The default collision response applied to two bodies                    *)

Masses == {0, 1, 3}
Velocities ==
  {Vec(Zero3, 1), Vec(<<2, 0, 0>>, 1), Vec(<<-1, 3, 0>>, 1),
   Vec(<<1, -2, 2>>, 2)}
Normals ==
  {Normalize(Zero3), Normalize(<<2, 0, 0>>), Normalize(<<1, 2, 0>>),
   Normalize(<<-1, 2, 2>>)}

SelfChoices ==
  {NoPhysics} \cup {Physics(m, v) : m \in Masses, v \in Velocities}

OtherChoices ==
  SelfChoices \cup {InertPhysics}
    \cup {[InertPhysics EXCEPT !.mass = m] : m \in Masses}

\* onCollision(self, other, point, normal) with the default response;
\* otherStatic: other was registered by registerStaticCollider()
Respond(self, other, otherStatic, n) ==
  /\ ~resp.called
  /\ resp' = [called |-> TRUE, self |-> self, other |-> other,
              otherStatic |-> otherStatic, normal |-> n,
              result |-> DefaultCollisionResponse(self, other, n)]
  /\ UNCHANGED <<csVars, sceneVars, loopVars, coll, veh>>

NextResponse ==
  \E self \in SelfChoices, other \in OtherChoices, otherStatic \in BOOLEAN,
     n \in Normals : Respond(self, other, otherStatic, n)

SpecResponse == InitLoop /\ [][NextResponse]_vars

----------------------------------------------------------------------------
(* A VehiclePhysics driven through setControls() and update()              *)

\* the controls objects tried: the scene's full object, objects that leave
\* fields out, and values outside the ranges the method clamps to
ControlInputs ==
  {[steering |-> Real(1, 1)],
   [throttle |-> Real(1, 1), brake |-> 0, steering |-> Real(3, 1)],
   [throttle |-> -Real(3, 2), brake |-> Real(2, 1), steering |-> -Real(1, 1)]}

DeltaTimes == {Real(16, 1000), Real(1, 10), Real(25, 100)}

\* setControls(controls), with the count of the calls kept beside it
Controlled(V, controls) ==
  [SetControls(V, controls) EXCEPT
     !.calls = @ + 1,
     !.asked = DOMAIN controls,
     !.steerRun =
       IF @ # null /\ controls = [steering |-> Real(1, 1)]
       THEN @ + 1 ELSE null]

VehSetControls(controls) ==
  /\ veh.calls < MaxControlCalls
  /\ veh' = Controlled(veh, controls)
  /\ UNCHANGED <<csVars, sceneVars, loopVars, resp, coll>>

VehUpdate(deltaTime, terrain) ==
  /\ veh.updates < MaxVehicleUpdates
  /\ veh' = [VehicleUpdate(veh, deltaTime, terrain) EXCEPT
               !.updates = @ + 1, !.steerRun = null]
  /\ UNCHANGED <<csVars, sceneVars, loopVars, resp, coll>>

NextVehicle ==
  \/ \E controls \in ControlInputs : VehSetControls(controls)
  \/ \E deltaTime \in DeltaTimes, terrain \in Terrains :
       VehUpdate(deltaTime, terrain)

SpecVehicle == InitLoop /\ [][NextVehicle]_vars

\* a driver who only calls setControls(), as between two physics ticks
VehSteer(controls) ==
  /\ veh.calls < MaxSteeringCalls
  /\ veh' = Controlled(veh, controls)
  /\ UNCHANGED <<csVars, sceneVars, loopVars, resp, coll>>

NextSteering == \E controls \in ControlInputs : VehSteer(controls)

SpecSteering == InitLoop /\ [][NextSteering]_vars

----------------------------------------------------------------------------
(* Claims about the checkpoint/lap state machine                           *)

LapTimes == heap[cs.lapTimes]

\* C1: after startRace(), once all N checkpoints have been passed in order
\* exactly totalLaps times the race is finished, lapTimes holds totalLaps
\* entries and bestLapTime is the minimum of lapTimes.
C1_LapClosing ==
  (cs.isRaceStarted /\ passCount = cs.numCheckpoints * cs.totalLaps)
    => /\ cs.isRaceFinished
       /\ Len(LapTimes) = cs.totalLaps
       /\ cs.bestLapTime = SeqMin(LapTimes)

\* C2: the first crossing of the start/finish checkpoint after startRace()
\* closes no lap: no onLapCompleted, laps still 0, lapTimes still empty.
C2_FirstCrossingGuard ==
  (cs.isRaceStarted /\ passCount = 1)
    => /\ CountEvents(events, "lapCompleted") = 0
       /\ cs.laps = 0
       /\ LapTimes = <<>>

\* C3: onRaceFinished fires exactly once per race, and once isRaceFinished
\* is set every update() call changes no race field and fires no callback.
C3_FinishedOnce ==
  /\ finishedCount <= 1
  /\ cs.isRaceFinished <=> finishedCount = 1

C3_UpdateNoOpAfterFinish ==
  (cs.isRaceFinished /\ UpdateStep)
    => /\ cs' = cs
       /\ heap'[cs'.lapTimes] = heap[cs.lapTimes]
       /\ events' = <<>>
       /\ finishedCount' = finishedCount

C3_FinishedIsFinal == [](C3_FinishedOnce) /\ [][C3_UpdateNoOpAfterFinish]_vars

\* C3 witness: a finished race on which update() has been called again
C3_Witness ==
  /\ cs.isRaceFinished
  /\ finishedCount = 1
  /\ wallSinceStart > cs.raceTime

\* C4: a snapshot returned by getRaceState() is independent of the system:
\* writing to a snapshot changes neither the system's lap times nor another
\* snapshot, and later updates do not change a snapshot taken earlier.
C4_SnapshotIndependent ==
  /\ LapTimes = ownLapTimes
  /\ \A i \in SnapSlots : snaps[i].held => heap[snaps[i].lapTimes] = snapTaken[i]

----------------------------------------------------------------------------
(* Claims about the race orchestrator                                      *)

\* the latest handler was a fixed tick that ran (the scene was not paused)
TickRan == trace # <<>> /\ trace[1].step = "fixedUpdate" /\ ~isPaused

\* C5: in a fixed tick in which a checkpoint is passed (alone or together
\* with a lap completion or the race finish) the state-changed callback is
\* called exactly once, with a snapshot holding all of that tick's changes.
C5_PublishOncePerTick ==
  (TickRan /\ events # <<>>)
    => /\ Cardinality(Publishes(trace)) = 1
       /\ \A i \in Publishes(trace) :
            trace[i].snap = <<SceneGetRaceState(rs, heap)>>

\* C6: within one fixed tick the steps run in the order dynamics, collision,
\* checkpoint evaluation, merge into the outward race state, and only then
\* the publication of the outward snapshot.
C6_TickOrder ==
  TickRan
    => /\ 0 < StepIndex(trace, "dynamics")
       /\ StepIndex(trace, "dynamics") < StepIndex(trace, "collision")
       /\ StepIndex(trace, "collision") < StepIndex(trace, "checkpoint")
       /\ StepIndex(trace, "checkpoint") < StepIndex(trace, "merge")
       /\ \A i \in Publishes(trace) : StepIndex(trace, "merge") < i

----------------------------------------------------------------------------
(* Claims about the fixed-timestep scheduler                               *)

PassIndices(phase) ==
  {i \in 1..Len(frame.passes) : frame.passes[i].phase = phase}

Calls(i) == frame.passes[i].calls

Occurrences(arr, cb) == Cardinality({k \in 1..Len(arr) : arr[k] = cb})

Invocations(i, cb) ==
  Cardinality({k \in 1..Len(Calls(i)) : Calls(i)[k].cb = cb})

RemovedIn(i) == {Calls(i)[k].removes : k \in 1..Len(Calls(i))} \ {"none"}

\* C7: a frame that starts with accumulator a, capped delta d, time scale s
\* and fixed step h > 0 runs exactly floor((a + d*s) / h) fixed ticks, hands
\* h to every fixed-update callback, and leaves 0 <= accumulatedTime < h.
C7_AccumulatorLaw ==
  (frame.ran /\ loop.fixedTimeStep > 0) =>
    /\ Cardinality(PassIndices("fixed")) =
         (frame.accBefore + loop.deltaTime * loop.timeScale)
           \div loop.fixedTimeStep
    /\ \A i \in PassIndices("fixed") : \A k \in 1..Len(Calls(i)) :
         Calls(i)[k].arg = loop.fixedTimeStep
    /\ 0 <= loop.accumulatedTime
    /\ loop.accumulatedTime < loop.fixedTimeStep

C7_Witness ==
  /\ frame.ran
  /\ loop.timeScale = 2
  /\ loop.deltaTime = 3
  /\ frame.accBefore = 1
  /\ loop.fixedTimeStep = 2
  /\ Cardinality(PassIndices("fixed")) = 3
  /\ loop.accumulatedTime = 1
  /\ \E i \in PassIndices("fixed") : Len(Calls(i)) > 0

\* C8: once stop() has returned no fixed-update, update or render callback
\* is invoked until start() is called again, also when stop() was called by
\* a callback in the middle of a frame.
C8_StopIsImmediate ==
  \A i \in 1..Len(frame.passes) : \A k \in 1..Len(Calls(i)) :
    Calls(i)[k].running

C10_RemoveDuringFrame ==
  \A i \in 1..Len(frame.passes) :
    /\ \A cb \in Callbacks \ RemovedIn(i) :
         Invocations(i, cb) = Occurrences(frame.passes[i].registered, cb)
    /\ \A cb \in frame.passes[i].removedBefore : Invocations(i, cb) = 0

C10_Witness ==
  \E i, j \in 1..Len(frame.passes) :
    /\ i < j
    /\ Len(Calls(i)) = 2
    /\ Calls(i)[1].removes = Calls(i)[1].cb
    /\ Calls(i)[2].cb # Calls(i)[1].cb
    /\ frame.passes[j].phase = frame.passes[i].phase
    /\ Len(Calls(j)) = 1
    /\ Calls(j)[1].cb = Calls(i)[2].cb

\* C11: whatever the gap between two frame timestamps, deltaTime never
\* exceeds maxDeltaTime, so with fixed step h > 0 and time scale s a frame
\* runs at most floor((h + maxDeltaTime * s) / h) fixed ticks.
C11_TickBound ==
  (frame.ran /\ loop.fixedTimeStep > 0) =>
    /\ loop.deltaTime <= loop.maxDeltaTime
    /\ Cardinality(PassIndices("fixed")) <=
         (loop.fixedTimeStep + loop.maxDeltaTime * loop.timeScale)
           \div loop.fixedTimeStep

\* C11, amended: deltaTime never exceeds maxDeltaTime, and a frame that
\* starts with accumulator a runs at most floor((a + maxDeltaTime * s) / h)
\* fixed ticks; a can exceed h after setFixedTimeStep() shortened the step.
C11_TickBoundFromAccumulator ==
  (frame.ran /\ loop.fixedTimeStep > 0) =>
    /\ loop.deltaTime <= loop.maxDeltaTime
    /\ Cardinality(PassIndices("fixed")) <=
         (frame.accBefore + loop.maxDeltaTime * loop.timeScale)
           \div loop.fixedTimeStep

C11_Witness ==
  /\ frame.ran
  /\ frame.gap > loop.maxDeltaTime
  /\ loop.deltaTime = loop.maxDeltaTime
  /\ loop.timeScale = 2
  /\ frame.accBefore = 3
  /\ loop.fixedTimeStep = 1
  /\ Cardinality(PassIndices("fixed")) = 27

----------------------------------------------------------------------------
(* Claims about race time and the start of a race                          *)

\* One update(deltaTime, ...) of a running race advances raceTime and, when
\* no lap is closed by it, currentLapTime by deltaTime.
C12_UpdateAdvancesByDt ==
  \A dt \in DtSteps, e \in WallSteps,
     p \in VehiclePositions(cs.numCheckpoints) :
    (cs.isRaceStarted /\ ~cs.isRaceFinished /\ UpdateCall(dt, p, e)) =>
      /\ cs'.raceTime = cs.raceTime + dt
      /\ CountEvents(events', "lapCompleted") = 0 =>
           cs'.currentLapTime = cs.currentLapTime + dt

\* C12: while racing every update(dt, pos) advances the race time and the
\* current-lap time by exactly dt, so raceTime is the sum of the dt values
\* passed since startRace() whatever wall-clock time passed between calls.
C12_RaceTimeIsSumOfDt == [][C12_UpdateAdvancesByDt]_vars

\* The state a startRace() call leaves behind
C13_FreshRace ==
  StartRace =>
    /\ cs'.currentCheckpoint = 0
    /\ cs'.laps = 0
    /\ heap'[cs'.lapTimes] = <<>>
    /\ cs'.currentLapTime = 0
    /\ cs'.bestLapTime = null
    /\ ~cs'.isRaceFinished
    /\ cs'.isRaceStarted

\* C13: right after any startRace(), also one that follows a race in which
\* laps were completed, currentCheckpoint = 0, laps = 0, lapTimes is empty,
\* currentLapTime = 0, bestLapTime is null, isRaceFinished is false and
\* isRaceStarted is true.
C13_StartRaceResetsAll == [][C13_FreshRace]_vars

----------------------------------------------------------------------------
(* Claims about collisions                                                 *)

Momentum(a, b) ==
  VecAdd(VecScale(a.mass, 1, a.velocity), VecScale(b.mass, 1, b.velocity))

DynamicPair ==
  /\ resp.called
  /\ ~resp.otherStatic
  /\ resp.self.has /\ resp.self.mass > 0
  /\ resp.other.has /\ resp.other.mass > 0 /\ resp.other.hasVelocity

\* C14: for two dynamic bodies with finite masses the default response
\* leaves m1*v1' + m2*v2' = 0.8 * (m1*v1 + m2*v2).
C14_MomentumScaled ==
  DynamicPair =>
    Momentum(resp.result.self, resp.result.other)
      = VecScale(4, 5, Momentum(resp.self, resp.other))

C14_Witness ==
  /\ DynamicPair
  /\ resp.self.mass = 1
  /\ resp.other.mass = 3
  /\ resp.normal = Normalize(<<1, 2, 0>>)
  /\ resp.self.velocity = Vec(<<-1, 3, 0>>, 1)
  /\ resp.other.velocity = Vec(<<1, -2, 2>>, 2)
  /\ resp.result.self.velocity # VecScale(4, 5, resp.self.velocity)
  /\ resp.result.other.velocity # VecScale(4, 5, resp.other.velocity)

\* C16: when a dynamic body with the default response hits a collider
\* registered by registerStaticCollider(), its velocity becomes the
\* reflection about the normal scaled by 0.5 and the static object is left
\* unchanged.
C16_StaticReflects ==
  (resp.called /\ resp.otherStatic /\ resp.self.has) =>
    /\ resp.result.self.velocity
         = VecScale(1, 2, Reflect(resp.self.velocity, resp.normal))
    /\ resp.result.other = resp.other
    /\ ~resp.result.threw

Overlap(a, b) == IntersectsSphere(coll, a, b) /\ IntersectsBox(coll, a, b)

CallsOf(self, other) ==
  {k \in 1..Len(coll.calls) :
     coll.calls[k].self = self /\ coll.calls[k].other = other}

TestsOf(i, j) == {k \in 1..Len(coll.tested) : coll.tested[k] = <<i, j>>}

\* C15: update() tests every unordered pair of dynamic colliders exactly
\* once; for a pair that overlaps each side's callback is invoked once, A's
\* with (A, B, point, n) and B's with (B, A, point, -n); for a hit of a
\* dynamic on a static collider only the dynamic side's callback is invoked.
C15_PairsAndCallbacks ==
  coll.ran =>
    /\ \A i, j \in 1..Len(coll.colliders) :
         i < j =>
           /\ Cardinality(TestsOf(i, j)) = 1
           /\ Cardinality(TestsOf(j, i)) = 0
    /\ \A i \in 1..Len(coll.colliders) : Cardinality(TestsOf(i, i)) = 0
    /\ \A i, j \in 1..Len(coll.colliders) :
         i < j =>
           LET a == coll.colliders[i]
               b == coll.colliders[j]
           IN IF Overlap(a, b)
              THEN /\ Cardinality(CallsOf(a, b)) = 1
                   /\ Cardinality(CallsOf(b, a)) = 1
                   /\ \A k \in CallsOf(a, b), l \in CallsOf(b, a) :
                        /\ k < l
                        /\ coll.calls[k].normal = CollisionNormal(coll, a, b)
                        /\ coll.calls[l].normal = Negate(coll.calls[k].normal)
                        /\ coll.calls[l].point = coll.calls[k].point
              ELSE CallsOf(a, b) = {} /\ CallsOf(b, a) = {}
    /\ \A i \in 1..Len(coll.colliders), k \in 1..Len(coll.staticColliders) :
         LET a == coll.colliders[i]
             st == coll.staticColliders[k]
         IN /\ Cardinality(CallsOf(a, st)) = IF Overlap(a, st) THEN 1 ELSE 0
            /\ \A c \in CallsOf(a, st) :
                 coll.calls[c].normal = CollisionNormal(coll, a, st)
            /\ CallsOf(st, a) = {}

C15_Witness ==
  /\ coll.ran
  /\ coll.colliders = <<2, 1>>
  /\ coll.staticColliders = <<3>>
  /\ coll.collider[2].center = <<1, 2, 0>>
  /\ coll.collider[1].center = <<3, 0, 0>>
  /\ coll.collider[3].center = Zero3
  /\ Len(coll.calls) = 4
  /\ coll.calls[1] = [self |-> 2, other |-> 1, point |-> Vec(Zero3, 1),
                      normal |-> Normalize(<<2, -2, 0>>)]
  /\ coll.calls[2].normal = Normalize(<<-2, 2, 0>>)

----------------------------------------------------------------------------
(* Claims about VehiclePhysics                                             *)

\* the latest update() found every wheel at least a ray's length
\* (suspensionHeight + suspensionTravel) above the ground
Airborne(V) ==
  /\ V.last.ran
  /\ \A i \in 1..4 :
       V.last.distance[i]
         >= VehicleConfig.suspensionHeight + VehicleConfig.suspensionTravel

\* C17: an update() in which all four wheels are at least suspensionHeight
\* + suspensionTravel above the ground leaves every wheel off the ground
\* with no suspension force, and adds no engine force, no steering torque
\* and no rolling resistance whatever the throttle and steering are, while
\* gravity and (above its speed threshold) drag are still summed into the
\* force that changes the velocity.
C17_AirborneBoundary ==
  Airborne(veh) =>
    LET l == veh.last
        m == VehicleConfig.mass
        force == Plus(Plus(l.gravity, l.brake), l.drag)
    IN /\ \A i \in 1..4 :
            ~veh.wheels[i].onGround /\ veh.wheels[i].suspensionForce = 0
       /\ GetPerformanceMetrics(veh).wheelsOnGround = 0
       /\ l.suspension = Zero3
       /\ l.engine = Zero3
       /\ l.torque = Zero3
       /\ l.rolling = Zero3
       /\ l.gravity = <<0, -(Real(981, 100) * m), 0>>
       /\ LengthSq(l.before) > Real(1, 10) =>
            l.drag # Zero3 /\ Dot(l.drag, l.before) < 0
       /\ veh.velocity =
            Plus(l.before,
                 MultiplyScalar(<<force[1] \div m, force[2] \div m,
                                  force[3] \div m>>, l.dt))
       /\ veh.velocity # l.before

\* a falling vehicle, throttle and steering applied, updated in the air:
\* drag acts on it and the engine does not
C17_Witness ==
  /\ Airborne(veh)
  /\ veh.last.throttle = Real(1, 1)
  /\ Abs(veh.last.steering) > Real(1, 100)
  /\ LengthSq(veh.last.before) > Real(1, 10)
  /\ veh.last.drag # Zero3
  /\ veh.last.engine = Zero3
  /\ veh.velocity[2] < veh.last.before[2]

\* the latest update() was made on a vehicle at rest at its constructed
\* height, controls released, over flat ground at y = 0
UpdatedAtRest(V) ==
  /\ V.last.ran
  /\ V.last.before = Zero3
  /\ V.last.throttle = 0 /\ V.brake = 0 /\ V.last.steering = 0
  /\ \A i \in 1..4 :
       /\ V.last.ground[i] = 0
       /\ V.last.distance[i] = VehicleConfig.suspensionHeight

\* C18: update(dt, flatGround) with dt <= 0.1 on a vehicle at rest (zero
\* velocity, zero controls, constructed rest height, ground at y = 0) does
\* not increase the magnitude of the velocity: the vehicle does not start
\* to fall.
C18_RestEquilibrium ==
  UpdatedAtRest(veh) /\ veh.last.dt <= Real(1, 10) =>
    Length(veh.velocity) <= Length(veh.last.before)

\* C19: steering from 0 towards target 1 by setControls() calls alone is
\* exactly 1.0 after 24 calls (0.4 s at 60 Hz, steeringSpeed 2.5 per
\* second) and never exceeds the target at any call of the run.
C19_SteeringRate ==
  veh.steerRun # null =>
    /\ veh.steering <= Real(1, 1)
    /\ veh.steerRun = 24 => veh.steering = Real(1, 1)

\* C20: the rpm reported by getPerformanceMetrics() is never below 800 nor
\* above 8000 in any state reached from construction by setControls() and
\* update() calls, and a vehicle at 0 speed in gear 1 reports exactly 800.
C20_RpmFloor ==
  LET metrics == GetPerformanceMetrics(veh)
  IN /\ metrics.rpm >= Real(800, 1)
     /\ metrics.rpm <= Real(8000, 1)
     /\ metrics.speedKmh = 0 /\ metrics.gear = 1 =>
          metrics.rpm = Real(800, 1)

ControlsInRange(V) ==
  /\ -Real(1, 1) <= V.throttle /\ V.throttle <= Real(1, 1)
  /\ 0 <= V.brake /\ V.brake <= Real(1, 1)
  /\ -Real(1, 1) <= V.steering /\ V.steering <= Real(1, 1)

C21_Step ==
  /\ ControlsInRange(veh')
  /\ veh'.calls = veh.calls + 1 =>
       /\ "throttle" \notin veh'.asked => veh'.throttle = veh.throttle
       /\ "brake" \notin veh'.asked => veh'.brake = veh.brake
       /\ "steering" \notin veh'.asked => veh'.steering = veh.steering

----------------------------------------------------------------------------
(* Claims about the order of checkpoints, events and flags                 *)

IndexInRange == 0 <= cs.currentCheckpoint /\ cs.currentCheckpoint < cs.numCheckpoints

C22_UpdateTestsCurrentOnly ==
  \A p \in VehiclePositions(cs.numCheckpoints) :
    TickCall(p) =>
      /\ Abs(p - CheckpointPos(cs.currentCheckpoint)) >= DistanceThreshold =>
           /\ cs'.currentCheckpoint = cs.currentCheckpoint
           /\ cs'.laps = cs.laps
           /\ events' = <<>>
      /\ cs'.currentCheckpoint
           \in {cs.currentCheckpoint,
                (cs.currentCheckpoint + 1) % cs.numCheckpoints}
      /\ CountEvents(events', "checkpointPassed") <= 1

\* C22: update() tests only the checkpoint at currentCheckpoint: a vehicle
\* out of its range advances nothing, also when it is within range of
\* another checkpoint; one update() advances currentCheckpoint by at most
\* one, to (currentCheckpoint + 1) mod N; and 0 <= currentCheckpoint < N in
\* every reachable state.
C22_OrderedTraversal == []IndexInRange /\ [][C22_UpdateTestsCurrentOnly]_vars

\* on a track of three checkpoints the first has been passed, and a later
\* update() of the running race advanced nothing
C22_Witness ==
  /\ cs.numCheckpoints = 3
  /\ cs.isRaceStarted /\ ~cs.isRaceFinished
  /\ passCount = 1
  /\ cs.currentCheckpoint = 1
  /\ events = <<>>
  /\ cs.currentLapTime >= 3

\* the place of a callback in the order of one checkpoint hit
EventRank(type) ==
  CASE type = "checkpointPassed" -> 1
    [] type = "lapCompleted" -> 2
    [] type = "raceFinished" -> 3

\* C23: within one update() that hits the checkpoint, onCheckpointPassed
\* fires first, carrying the index before it advances, then onLapCompleted
\* (start/finish checkpoint with laps > 0), and onRaceFinished last;
\* onLapCompleted never precedes onCheckpointPassed of the same crossing.
C23_EventOrder ==
  /\ \A i, j \in 1..Len(events) :
       i < j => EventRank(events[i].type) < EventRank(events[j].type)
  /\ events # <<>> =>
       /\ events[1].type = "checkpointPassed"
       /\ (events[1].index + 1) % cs.numCheckpoints = cs.currentCheckpoint

\* C24: the lapCompleted and checkpointPassed flags of the race state are
\* one-tick transients: at the end of a fixed tick, and in every snapshot
\* published during it, a flag is true only if its event occurred in that
\* tick, also when events follow each other closely or a countdown has
\* started since.
C24_OneTickFlags ==
  TickRan =>
    /\ rs.checkpointPassed => CountEvents(events, "checkpointPassed") > 0
    /\ rs.lapCompleted => CountEvents(events, "lapCompleted") > 0
    /\ \A i \in Publishes(trace) :
         /\ trace[i].snap[1].checkpointPassed
              => CountEvents(events, "checkpointPassed") > 0
         /\ trace[i].snap[1].lapCompleted
              => CountEvents(events, "lapCompleted") > 0

----------------------------------------------------------------------------
(* Claims about the collision point and the number of responses            *)

\* the midpoint of the bounding-sphere centers of a and b
Midpoint(C, a, b) == Vec(Plus(C.collider[a].center, C.collider[b].center), 2)

\* C25: on every detected hit, dynamic-dynamic or dynamic-static, the
\* collision point passed to the callbacks is the midpoint of the two
\* colliders' bounding-sphere centers.
C25_PointIsMidpoint ==
  coll.ran =>
    \A k \in 1..Len(coll.calls) :
      coll.calls[k].point
        = Midpoint(coll, coll.calls[k].self, coll.calls[k].other)

\* the two bodies after one call of the default response on the velocities
\* they were built with
SingleResponse(C, a, b) ==
  DefaultCollisionResponse(BuiltPhysics(a), BuiltPhysics(b),
                           CollisionNormal(C, a, b))

\* C26: when two dynamic colliders that both use the default response are
\* in contact, one update() applies the velocity exchange to the pair once:
\* each body's velocity afterwards is the result of a single two-body
\* response, scaled once by 0.8.
C26_ResponseAppliedOnce ==
  (coll.ran /\ coll.updates = 1 /\ Len(coll.colliders) = 2
     /\ coll.staticColliders = <<>>) =>
    LET a == coll.colliders[1]
        b == coll.colliders[2]
    IN (Overlap(a, b) /\ coll.collider[a].onCollision = "default"
          /\ coll.collider[b].onCollision = "default"
          /\ BuiltPhysics(a).has /\ BuiltPhysics(b).has) =>
         /\ coll.physics[a] = SingleResponse(coll, a, b).self
         /\ coll.physics[b] = SingleResponse(coll, a, b).other

----------------------------------------------------------------------------
(* Claims about the countdown                                              *)

\* a firing of a countdown timer starts the race only if none is running,
\* and leaves a running race as it is
C27_TimerSparesRunningRace ==
  (CountdownTick /\ rs.isRaceStarted) =>
    /\ cs' = cs
    /\ rs'.isRaceStarted
    /\ intervals' = intervals

\* C27: for any interleaving of startRaceCountdown() calls and one-second
\* timer firings, also a call made while an earlier countdown is running,
\* the countdown value is never negative, the race is started once per
\* completed countdown, and a race that is running is never reset by a
\* timer left over from an earlier countdown.
C27_CountdownLifecycle ==
  [](rs.countdown >= 0) /\ [][C27_TimerSparesRunningRace]_vars

----------------------------------------------------------------------------
(* Claims about the frame chain and the termination of a frame             *)

\* C28: after any sequence of start(), stop() and onFrame() steps, also
\* with stop() called from inside a callback during a frame, at most one
\* animation-frame request is pending, so onFrame runs at most once per
\* host frame and one stop() cancels all pending frame work.
C28_SingleFrameChain == Cardinality(loop.requests) <= 1

\* C29: every onFrame() call terminates: for every value the loop can be
\* configured with through setFixedTimeStep() and setTimeScale(), the
\* fixed-tick while loop runs a finite number of iterations and the frame
\* goes on to the update and render callbacks.
C29_FrameTerminates == ~frame.hung

----------------------------------------------------------------------------
(* Claims about the reported lap                                           *)

LapInRange(currentLap, totalLaps) == 1 <= currentLap /\ currentLap <= totalLaps

\* C30: in every reachable state, also after the race has finished, the
\* currentLap reported by getRaceState() and the one copied into the
\* published race state lie between 1 and totalLaps.
C30_CurrentLapInRange ==
  /\ LapInRange(GetRaceState(cs).currentLap, GetRaceState(cs).totalLaps)
  /\ LapInRange(rs.currentLap, GetRaceState(cs).totalLaps)

====
